---- MODULE Spec2Model ----
(***************************************************************************)
(* Model of go-to-run: the goroutine fan-out of ProgressManager's          *)
(* ParallelProgress, the package installer, the package manager detector   *)
(* and the command sequences of the system and security managers.          *)
(***************************************************************************)
EXTENDS Integers, Sequences, FiniteSets, TLC

\* ------------------------------------------------------------------ bounds
\* Largest len(tasks) explored for ParallelProgress.
MaxTasks == 3
\* Largest len(packages) explored for InstallPackages.
MaxPkgs == 3
\* Largest len(config.OpenPorts) explored for SetupFirewall.
MaxOpenPorts == 2
\* Largest number of dot-separated extensions of an archive path explored.
MaxExts == 2
\* Largest number of lines of sshd_config explored, before configureSSH.
MaxLines == 3
\* Largest number of configureSSH calls explored on one file.
MaxRuns == 2

VARIABLES
    \* ---- ProgressManager.ParallelProgress (internal/ui/progress.go)
    ntasks,     \* len(tasks)
    mainpc,     \* position of the calling goroutine
    si,         \* loop variable of the start loop (line 272)
    ci,         \* loop variable of the collect loop (line 281)
    gpc,        \* position of the goroutine started for each task index
    calls,      \* how often each task function has been invoked
    terr,       \* the goroutine's local err: what t() returned
    results,    \* the buffered channel results
    errors,     \* the slice errors
    bar,        \* progress bar count
    ppret       \* ParallelProgress's return value

ppvars == <<ntasks, mainpc, si, ci, gpc, calls, terr, results, errors, bar, ppret>>

\* ---- InstallPackages (internal/system/packages.go)
VARIABLES
    pmName,       \* pm.Name
    packages,     \* the requested packages
    showProgress, \* the showProgress argument
    hostInstalled,\* the packages the host's package database reports installed
    ipc,          \* position inside InstallPackages and its installers
    pidx,         \* loop index of the loop ipc is in
    toInstall,    \* the slice toInstall
    running,      \* external commands started and not yet finished
    cmdlog,       \* finished install commands, in order, with their outcome
    ibar,         \* progress bar count of installWithProgress
    ipret         \* InstallPackages's return value

ipvars == <<pmName, packages, showProgress, hostInstalled, ipc, pidx, toInstall,
            running, cmdlog, ibar, ipret>>

\* ---- PackageManagerDetector.Detect (internal/system/packages.go)
VARIABLES
    hostCmds,     \* the commands exec.LookPath finds on the host
    dvisited,     \* keys of packageManagers the range loop has passed
    dpc,          \* position inside Detect
    dret          \* Detect's return value

dtvars == <<hostCmds, dvisited, dpc, dret>>

\* ---- operations of SecurityManager, SystemUtils and packages.go
VARIABLES
    op,           \* the operation that was called
    opc,          \* position inside the operation
    config,       \* the *FirewallConfig argument of SetupFirewall
    pm,           \* the *PackageManager an operation works with
    status,       \* output of `ufw status`
    seenPorts,    \* applyRules: the map seenPorts
    ridx,         \* applyRules: index of the loop opc is in
    oplog,        \* external commands and file operations run, with outcome
    opret         \* the operation's return value

opvars == <<op, opc, config, pm, status, seenPorts, ridx, oplog, opret>>

\* ---- ExtractManager (pkg/archive/extract.go)
VARIABLES
    aop,          \* the method of ExtractManager that was called
    archivePath,  \* the archivePath argument: base name, then its extensions
    apc,          \* position inside the method
    archiveType,  \* extractArchive: the local archiveType
    extractor,    \* the extract method extractArchive's switch selected
    aret          \* the method's return value

avars == <<aop, archivePath, apc, archiveType, extractor, aret>>

\* ---- SecurityManager.configureSSH (internal/system/security.go)
\* A text is a sequence of words, blanks (" ", "\t") and line breaks ("\n").
VARIABLES
    sshdConfig,   \* the content of /etc/ssh/sshd_config
    sshdBefore,   \* its content when the last configureSSH call began
    sshArgs,      \* the arguments port, allowRoot, passwordAuth
    sshRuns,      \* configureSSH calls made
    sshret        \* what the last call returned

svars == <<sshdConfig, sshdBefore, sshArgs, sshRuns, sshret>>

\* ---- InstallPackages called once with each value of showProgress
VARIABLES
    prevCall      \* what the call with the other value of showProgress did

\* ---- SystemUtils.SetupSwap (system utilities)
VARIABLES
    swapSize,     \* the swapSize argument, later the size that is used
    memInfo,      \* what `free -b` gives on the host: failure, or the output
    swapInfo      \* what `swapon --show` gives on the host

wvars == <<swapSize, memInfo, swapInfo>>

\* ---- MergeConfigs (configuration)
VARIABLES
    base,         \* the base argument
    override,     \* the override argument
    merged        \* the pointer that is returned, and what it points to

mvars == <<base, override, merged>>

\* the subsystems added to the four above
morevars == <<avars, svars, prevCall, wvars, mvars>>

vars == <<ppvars, ipvars, dtvars, opvars, morevars>>

\* ParallelProgress is not running
IdlePP ==
    /\ ntasks = 0
    /\ mainpc = "idle"
    /\ si = 0
    /\ ci = 0
    /\ gpc = << >>
    /\ calls = << >>
    /\ terr = << >>
    /\ results = << >>
    /\ errors = << >>
    /\ bar = 0
    /\ ppret = [nil |-> TRUE, count |-> 0, errors |-> << >>]

\* InstallPackages is not running
IdleIP ==
    /\ pmName = "apt"
    /\ packages = << >>
    /\ showProgress = FALSE
    /\ hostInstalled = {}
    /\ ipc = "idle"
    /\ pidx = 0
    /\ toInstall = << >>
    /\ running = {}
    /\ cmdlog = << >>
    /\ ibar = 0
    /\ ipret = [nil |-> TRUE, kind |-> "none", pkg |-> ""]

\* Detect is not running
IdleDetect ==
    /\ hostCmds = {}
    /\ dvisited = {}
    /\ dpc = "idle"
    /\ dret = [nil |-> TRUE, err |-> FALSE, pm |-> [Name |-> ""]]

\* FirewallConfig{}: the zero value
NoConfig ==
    [Enabled |-> FALSE, SSHPort |-> 0, OpenPorts |-> << >>,
     AllowIPs |-> << >>, Rules |-> << >>]

\* no operation is running
IdleOps ==
    /\ op = "none"
    /\ opc = "idle"
    /\ config = NoConfig
    /\ pm = [Name |-> ""]
    /\ status = << >>
    /\ seenPorts = {}
    /\ ridx = 0
    /\ oplog = << >>
    /\ opret = [nil |-> TRUE, msg |-> ""]

\* no method of ExtractManager is running
IdleArchive ==
    /\ aop = "none"
    /\ archivePath = << >>
    /\ apc = "idle"
    /\ archiveType = ""
    /\ extractor = ""
    /\ aret = [nil |-> TRUE, msg |-> ""]

\* configureSSH has not been called
IdleSSHD ==
    /\ sshdConfig = << >>
    /\ sshdBefore = << >>
    /\ sshArgs = [port |-> 0, allowRoot |-> FALSE, passwordAuth |-> FALSE]
    /\ sshRuns = 0
    /\ sshret = [nil |-> TRUE, msg |-> ""]

\* InstallPackages has not been called before
IdlePrev ==
    prevCall = [made |-> FALSE, cmdlog |-> << >>,
                ipret |-> [nil |-> TRUE, kind |-> "none", pkg |-> ""]]

\* SetupSwap has not been called
IdleSwap ==
    /\ swapSize = ""
    /\ memInfo = [err |-> FALSE, out |-> ""]
    /\ swapInfo = [err |-> FALSE, out |-> ""]

\* MergeConfigs has not been called
IdleMerge ==
    LET none == [System |-> [Timezone |-> "", Hostname |-> "", SwapSize |-> "",
                             Language |-> ""],
                 Security |-> [SSHPort |-> 0, OpenPorts |-> << >>,
                               AllowIPs |-> << >>],
                 Packages |-> [Basic |-> << >>, Archive |-> << >>,
                               Network |-> << >>, Monitoring |-> << >>,
                               Development |-> << >>, Security |-> << >>,
                               System |-> << >>, Database |-> << >>]]
    IN  /\ base = [nil |-> TRUE, cfg |-> none]
        /\ override = [nil |-> TRUE, cfg |-> none]
        /\ merged = [from |-> "none", nil |-> TRUE, cfg |-> none]

IdleMore == IdleArchive /\ IdleSSHD /\ IdlePrev /\ IdleSwap /\ IdleMerge

\* ParallelProgress, InstallPackages, Detect and the operations are not
\* running
IdleFirst == IdlePP /\ IdleIP /\ IdleDetect /\ IdleOps

OutsidePP == UNCHANGED <<ipvars, dtvars, opvars, morevars>>
OutsideIP == UNCHANGED <<ppvars, dtvars, opvars, morevars>>
OutsideDetect == UNCHANGED <<ppvars, ipvars, opvars, morevars>>
OutsideOps == UNCHANGED <<ppvars, ipvars, dvisited, dpc, dret, morevars>>
OutsideArchive ==
    UNCHANGED <<ppvars, ipvars, dtvars, opvars, svars, prevCall, wvars, mvars>>
OutsideSSHD ==
    UNCHANGED <<ppvars, ipvars, dtvars, opvars, avars, prevCall, wvars, mvars>>

\* ======================================================================
\* ProgressManager.ParallelProgress
\* ======================================================================

TaskIdx == 0 .. (ntasks - 1)

\* The error value a failing task returns: it is the task's own, so it
\* identifies the task that produced it.
NilErr == [nil |-> TRUE, by |-> -1]
ErrOf(idx) == [nil |-> FALSE, by |-> idx]

\* make(chan taskResult, len(tasks))
CapOneShort == IF ntasks = 0 THEN 0 ELSE ntasks - 1
ResultsCap == ntasks

\* i < len(tasks) of the collect loop
CollectTotalInclusive == ntasks + 1
CollectTotal == ntasks

\* fmt.Errorf("задача %d: %v", result.index, result.err)
TaskError(result) == [index |-> result.index, err |-> result.err]

\* fmt.Errorf("ошибки в %d задачах: %v", len(errors), errors)
AggregateError(errs) == [nil |-> FALSE, count |-> Len(errs), errors |-> errs]
\* return nil
NilReturn == [nil |-> TRUE, count |-> 0, errors |-> <<>>]

InitPP ==
    /\ ntasks \in 0 .. MaxTasks
    /\ mainpc = "start"
    /\ si = 0
    /\ ci = 0
    /\ gpc = [k \in 0 .. (ntasks - 1) |-> "none"]
    /\ calls = [k \in 0 .. (ntasks - 1) |-> 0]
    /\ terr = [k \in 0 .. (ntasks - 1) |-> NilErr]
    /\ results = <<>>
    /\ errors = <<>>
    /\ bar = 0
    /\ ppret = NilReturn
    /\ IdleIP
    /\ IdleDetect
    /\ IdleOps
    /\ IdleMore

\* for i, task := range tasks { go func(idx, t) {...}(i, task) }
StartTaskUnlessFailed ==
    /\ mainpc = "start"
    /\ si < ntasks
    /\ gpc' = IF \E k \in TaskIdx : ~terr[k].nil
              THEN gpc
              ELSE [gpc EXCEPT ![si] = "ready"]
    /\ si' = si + 1
    /\ UNCHANGED <<ntasks, mainpc, ci, calls, terr, results, errors, bar, ppret>>
    /\ OutsidePP

StartTask ==
    /\ mainpc = "start"
    /\ si < ntasks
    /\ gpc' = [gpc EXCEPT ![si] = "ready"]
    /\ si' = si + 1
    /\ UNCHANGED <<ntasks, mainpc, ci, calls, terr, results, errors, bar, ppret>>
    /\ OutsidePP

\* the start loop ends
StartDone ==
    /\ mainpc = "start"
    /\ si >= ntasks
    /\ mainpc' = "collect"
    /\ UNCHANGED <<ntasks, si, ci, gpc, calls, terr, results, errors, bar, ppret>>
    /\ OutsidePP

\* the goroutine calls t()
TaskCall(idx) ==
    /\ gpc[idx] = "ready"
    /\ gpc' = [gpc EXCEPT ![idx] = "running"]
    /\ calls' = [calls EXCEPT ![idx] = @ + 1]
    /\ UNCHANGED <<ntasks, mainpc, si, ci, terr, results, errors, bar, ppret>>
    /\ OutsidePP

\* err := t(): the task function returns nil or its error
TaskReturn(idx) ==
    /\ gpc[idx] = "running"
    /\ \E e \in {NilErr, ErrOf(idx)} : terr' = [terr EXCEPT ![idx] = e]
    /\ gpc' = [gpc EXCEPT ![idx] = "send"]
    /\ UNCHANGED <<ntasks, mainpc, si, ci, calls, results, errors, bar, ppret>>
    /\ OutsidePP

\* results <- taskResult{index: idx, err: err}
TaskSendLoopVar(idx) ==
    /\ gpc[idx] = "send"
    /\ Len(results) < ResultsCap
    /\ results' = Append(results, [index |-> si, err |-> terr[idx]])
    /\ gpc' = [gpc EXCEPT ![idx] = "done"]
    /\ UNCHANGED <<ntasks, mainpc, si, ci, calls, terr, errors, bar, ppret>>
    /\ OutsidePP

TaskSend(idx) ==
    /\ gpc[idx] = "send"
    /\ Len(results) < ResultsCap
    /\ results' = Append(results, [index |-> idx, err |-> terr[idx]])
    /\ gpc' = [gpc EXCEPT ![idx] = "done"]
    /\ UNCHANGED <<ntasks, mainpc, si, ci, calls, terr, errors, bar, ppret>>
    /\ OutsidePP

\* result := <-results; if result.err != nil { errors = append(...) }; bar.Add(1)
Collect ==
    /\ mainpc = "collect"
    /\ ci < CollectTotal
    /\ Len(results) > 0
    /\ LET result == Head(results) IN
         errors' = IF ~result.err.nil
                   THEN Append(errors, TaskError(result))
                   ELSE errors
    /\ results' = Tail(results)
    /\ bar' = bar + 1
    /\ ci' = ci + 1
    /\ UNCHANGED <<ntasks, mainpc, si, gpc, calls, terr, ppret>>
    /\ OutsidePP

\* bar.Finish(); if len(errors) > 0 { return fmt.Errorf(...) }; return nil
Return ==
    /\ mainpc = "collect"
    /\ ci >= CollectTotal
    /\ ppret' = IF Len(errors) > 0 THEN AggregateError(errors) ELSE NilReturn
    /\ mainpc' = "returned"
    /\ UNCHANGED <<ntasks, si, ci, gpc, calls, terr, results, errors, bar>>
    /\ OutsidePP

NextPP ==
    \/ StartTask
    \/ StartDone
    \/ \E idx \in TaskIdx : TaskCall(idx)
    \/ \E idx \in TaskIdx : TaskReturn(idx)
    \/ \E idx \in TaskIdx : TaskSend(idx)
    \/ Collect
    \/ Return

SpecPP == InitPP /\ [][NextPP]_vars

\* The Go scheduler runs every runnable goroutine, and every task function
\* is assumed to return.
FairPP ==
    /\ WF_vars(StartTask)
    /\ WF_vars(StartDone)
    /\ \A idx \in 0 .. (MaxTasks - 1) : WF_vars(idx \in TaskIdx /\ TaskCall(idx))
    /\ \A idx \in 0 .. (MaxTasks - 1) : WF_vars(idx \in TaskIdx /\ TaskReturn(idx))
    /\ \A idx \in 0 .. (MaxTasks - 1) : WF_vars(idx \in TaskIdx /\ TaskSend(idx))
    /\ WF_vars(Collect)
    /\ WF_vars(Return)

LiveSpecPP == SpecPP /\ FairPP

\* ======================================================================
\* InstallPackages, installWithProgress, installWithoutProgress
\* ======================================================================

\* Package names requested in the explored calls.
Pkgs == {"vim", "git"}

\* The keys of packageManagers, and a name that is not one of them.
SupportedPM == {"apt", "dnf", "yum", "pacman", "apk", "zypper"}
PMNames == SupportedPM \cup {"brew"}

\* pm.Name == "apt" || pm.Name == "dnf" || pm.Name == "yum"
BatchPMWrong(name) == name \in {"apt", "dnf", "yum", "pacman"}
BatchPM(name) == name \in {"apt", "dnf", "yum"}

\* Sequences over S of length at most n.
SeqUpTo(S, n) == UNION {[1 .. m -> S] : m \in 0 .. n}

IPReturnNil == [nil |-> TRUE, kind |-> "none", pkg |-> ""]
\* fmt.Errorf("ошибка проверки пакета %s: %w", pkg, err)
CheckError(pkg) == [nil |-> FALSE, kind |-> "check", pkg |-> pkg]
\* fmt.Errorf("ошибка установки %s: %w", pkg, err)
InstallError(pkg) == [nil |-> FALSE, kind |-> "install", pkg |-> pkg]
\* return cmd.Run(): the bare error of the batch command
RunError == [nil |-> FALSE, kind |-> "run", pkg |-> ""]

\* pm.Install + " " + strings.Join(packages, " "), run at the batch site
BatchCmd(pkgs) == [role |-> "batch", pm |-> pmName, args |-> pkgs]
\* pm.Install + " " + pkg, run at a per-package site
SingleCmd(pkg) == [role |-> "single", pm |-> pmName, args |-> <<pkg>>]

\* IsPackageInstalled: the default branch is an error, every other branch
\* reports what the host's package database says.
IsPackageInstalledErr(name) == name \notin SupportedPM
\* a faulty variant: the verdict of the check is inverted
IsPackageInstalledInverted(pkg) == pkg \notin hostInstalled
IsPackageInstalled(pkg) == pkg \in hostInstalled

InitIP ==
    /\ IdlePP
    /\ IdleDetect
    /\ IdleOps
    /\ IdleMore
    /\ pmName \in PMNames
    /\ packages \in SeqUpTo(Pkgs, MaxPkgs)
    /\ showProgress \in BOOLEAN
    /\ hostInstalled \in SUBSET Pkgs
    /\ ipc = "entry"
    /\ pidx = 1
    /\ toInstall = << >>
    /\ running = {}
    /\ cmdlog = << >>
    /\ ibar = 0
    /\ ipret = IPReturnNil

\* if len(packages) == 0 { return nil }
IPEntry ==
    /\ ipc = "entry"
    /\ IF Len(packages) = 0
       THEN ipc' = "done" /\ ipret' = IPReturnNil
       ELSE ipc' = "filter" /\ UNCHANGED ipret
    /\ UNCHANGED <<pmName, packages, showProgress, hostInstalled, pidx,
                   toInstall, running, cmdlog, ibar>>
    /\ OutsideIP

\* one iteration of the filter loop
IPFilter ==
    /\ ipc = "filter"
    /\ pidx <= Len(packages)
    /\ LET pkg == packages[pidx] IN
       IF IsPackageInstalledErr(pmName)
       THEN /\ ipret' = CheckError(pkg)
            /\ ipc' = "done"
            /\ UNCHANGED <<pidx, toInstall>>
       ELSE /\ toInstall' = IF ~IsPackageInstalled(pkg)
                            THEN Append(toInstall, pkg)
                            ELSE toInstall
            /\ pidx' = pidx + 1
            /\ UNCHANGED <<ipc, ipret>>
    /\ UNCHANGED <<pmName, packages, showProgress, hostInstalled, running,
                   cmdlog, ibar>>
    /\ OutsideIP

\* if len(toInstall) == 0 { return nil }; dispatch on showProgress and pm.Name
IPDispatch ==
    /\ ipc = "filter"
    /\ pidx > Len(packages)
    /\ pidx' = 1
    /\ IF Len(toInstall) = 0
       THEN ipc' = "done"
       ELSE IF showProgress
            THEN ipc' = IF BatchPM(pmName) THEN "wp_batch" ELSE "wp_each"
            ELSE ipc' = IF BatchPM(pmName) THEN "np_batch" ELSE "np_each"
    /\ UNCHANGED <<pmName, packages, showProgress, hostInstalled, toInstall,
                   running, cmdlog, ibar, ipret>>
    /\ OutsideIP

\* cmd.Run() starts the command and waits for it: the caller stays at the
\* call (site "_run") until the command has finished.
Started(cmd) == running' = running \cup {cmd}
\* When the call is compared with the call made with the other value of
\* showProgress, the external commands behave as they did there: the n-th
\* batch or per-package command of this call ends as the n-th one of that
\* call did, if that call ran one.
SameOutcome(cmd, ok) ==
    LET SameRole(e) == e.cmd.role = cmd.role
        before == SelectSeq(prevCall.cmdlog, SameRole)
        n == Len(SelectSeq(cmdlog, SameRole)) + 1
    IN  n <= Len(before) => ok = before[n].ok
Finished(cmd, ok) ==
    /\ SameOutcome(cmd, ok)
    /\ running' = running \ {cmd}
    /\ cmdlog' = Append(cmdlog, [cmd |-> cmd, ok |-> ok])

\* the batch command of a site is started
StartBatch(site) ==
    /\ ipc = site
    /\ Started(BatchCmd(toInstall))
    /\ ipc' = site \o "_run"
    /\ UNCHANGED <<pmName, packages, showProgress, hostInstalled, pidx,
                   toInstall, cmdlog, ibar, ipret>>
    /\ OutsideIP

\* the per-package command of the loop at a site is started
StartSingle(site) ==
    /\ ipc = site
    /\ pidx <= Len(toInstall)
    /\ Started(SingleCmd(toInstall[pidx]))
    /\ ipc' = site \o "_run"
    /\ UNCHANGED <<pmName, packages, showProgress, hostInstalled, pidx,
                   toInstall, cmdlog, ibar, ipret>>
    /\ OutsideIP

\* if err := cmd.Run(); err != nil { return fmt.Errorf(...pkg...) }; bar.Add(1)
FinishSingleRetry(site, barStep) ==
    /\ ipc = site \o "_run"
    /\ \E ok \in BOOLEAN :
        /\ Finished(SingleCmd(toInstall[pidx]), ok)
        /\ IF ok
           THEN /\ pidx' = pidx + 1
                /\ ibar' = ibar + barStep
                /\ ipc' = site
                /\ UNCHANGED ipret
           ELSE /\ ipc' = site
                /\ UNCHANGED <<pidx, ibar, ipret>>
    /\ UNCHANGED <<pmName, packages, showProgress, hostInstalled, toInstall>>
    /\ OutsideIP

FinishSingle(site, barStep) ==
    /\ ipc = site \o "_run"
    /\ \E ok \in BOOLEAN :
        /\ Finished(SingleCmd(toInstall[pidx]), ok)
        /\ IF ok
           THEN /\ pidx' = pidx + 1
                /\ ibar' = ibar + barStep
                /\ ipc' = site
                /\ UNCHANGED ipret
           ELSE /\ ipret' = InstallError(toInstall[pidx])
                /\ ipc' = "done"
                /\ UNCHANGED <<pidx, ibar>>
    /\ UNCHANGED <<pmName, packages, showProgress, hostInstalled, toInstall>>
    /\ OutsideIP

\* the loop at a site is over: (bar.Finish();) return nil
LoopDone(site) ==
    /\ ipc = site
    /\ pidx > Len(toInstall)
    /\ ipc' = "done"
    /\ UNCHANGED <<pmName, packages, showProgress, hostInstalled, pidx,
                   toInstall, running, cmdlog, ibar, ipret>>
    /\ OutsideIP

\* ---- installWithProgress, apt/dnf/yum: all packages in one command
WPBatchStart == StartBatch("wp_batch")

\* the batch command failed: install one by one; it succeeded:
\* bar.Add(len(packages)); bar.Finish(); return nil
WPBatchFinishAlwaysFallBack ==
    /\ ipc = "wp_batch_run"
    /\ \E ok \in BOOLEAN :
        /\ Finished(BatchCmd(toInstall), ok)
        /\ ipc' = "wp_fallback"
        /\ pidx' = 1
        /\ UNCHANGED ibar
    /\ UNCHANGED <<pmName, packages, showProgress, hostInstalled, toInstall,
                   ipret>>
    /\ OutsideIP

WPBatchFinish ==
    /\ ipc = "wp_batch_run"
    /\ \E ok \in BOOLEAN :
        /\ Finished(BatchCmd(toInstall), ok)
        /\ IF ok
           THEN /\ ibar' = ibar + Len(toInstall)
                /\ ipc' = "done"
                /\ UNCHANGED pidx
           ELSE /\ ipc' = "wp_fallback"
                /\ pidx' = 1
                /\ UNCHANGED ibar
    /\ UNCHANGED <<pmName, packages, showProgress, hostInstalled, toInstall,
                   ipret>>
    /\ OutsideIP

WPFallbackStart == StartSingle("wp_fallback")
WPFallbackFinish == FinishSingle("wp_fallback", 1)
WPFallbackDone == LoopDone("wp_fallback")

\* ---- installWithProgress, other package managers: one by one
WPEachStart == StartSingle("wp_each")
WPEachFinish == FinishSingle("wp_each", 1)
WPEachDone == LoopDone("wp_each")

\* ---- installWithoutProgress, apt/dnf/yum: return cmd.Run()
NPBatchStart == StartBatch("np_batch")

NPBatchFinish ==
    /\ ipc = "np_batch_run"
    /\ \E ok \in BOOLEAN :
        /\ Finished(BatchCmd(toInstall), ok)
        /\ ipret' = IF ok THEN IPReturnNil ELSE RunError
    /\ ipc' = "done"
    /\ UNCHANGED <<pmName, packages, showProgress, hostInstalled, pidx,
                   toInstall, ibar>>
    /\ OutsideIP

\* ---- installWithoutProgress, other package managers: one by one
NPEachStart == StartSingle("np_each")
NPEachFinish == FinishSingle("np_each", 0)
NPEachDone == LoopDone("np_each")

NextIP ==
    \/ IPEntry
    \/ IPFilter
    \/ IPDispatch
    \/ WPBatchStart
    \/ WPBatchFinish
    \/ WPFallbackStart
    \/ WPFallbackFinish
    \/ WPFallbackDone
    \/ WPEachStart
    \/ WPEachFinish
    \/ WPEachDone
    \/ NPBatchStart
    \/ NPBatchFinish
    \/ NPEachStart
    \/ NPEachFinish
    \/ NPEachDone

SpecIP == InitIP /\ [][NextIP]_vars

\* InstallPackages, lines 181-184, seen from a caller: the call that has
\* returned is made again on the same host with the same package manager and
\* packages and the other value of showProgress
IPOtherProgress ==
    /\ ipc = "done"
    /\ ~prevCall.made
    /\ prevCall' = [made |-> TRUE, cmdlog |-> cmdlog, ipret |-> ipret]
    /\ showProgress' = ~showProgress
    /\ ipc' = "entry"
    /\ pidx' = 1
    /\ toInstall' = << >>
    /\ cmdlog' = << >>
    /\ ibar' = 0
    /\ ipret' = IPReturnNil
    /\ UNCHANGED <<pmName, packages, hostInstalled, running>>
    /\ UNCHANGED <<ppvars, dtvars, opvars, avars, svars, wvars, mvars>>

NextIPBoth ==
    \/ NextIP
    \/ IPOtherProgress

SpecIPBoth == InitIP /\ [][NextIPBoth]_vars

\* ======================================================================
\* PackageManagerDetector.Detect
\* ======================================================================

\* var packageManagers = map[string]PackageManager{...}
packageManagers ==
    [ apt    |-> [Name |-> "apt", Update |-> "apt update",
                  Upgrade |-> "apt upgrade -y", Install |-> "apt install -y",
                  Remove |-> "apt remove -y",
                  Clean |-> "apt autoremove -y && apt autoclean",
                  Check |-> "apt list --upgradable"],
      dnf    |-> [Name |-> "dnf", Update |-> "dnf check-update",
                  Upgrade |-> "dnf update -y", Install |-> "dnf install -y",
                  Remove |-> "dnf remove -y", Clean |-> "dnf clean all",
                  Check |-> "dnf check-update"],
      yum    |-> [Name |-> "yum", Update |-> "yum check-update",
                  Upgrade |-> "yum update -y", Install |-> "yum install -y",
                  Remove |-> "yum remove -y", Clean |-> "yum clean all",
                  Check |-> "yum check-update"],
      pacman |-> [Name |-> "pacman", Update |-> "pacman -Sy",
                  Upgrade |-> "pacman -Syu --noconfirm",
                  Install |-> "pacman -S --noconfirm",
                  Remove |-> "pacman -R --noconfirm",
                  Clean |-> "pacman -Sc --noconfirm", Check |-> "pacman -Qu"],
      apk    |-> [Name |-> "apk", Update |-> "apk update",
                  Upgrade |-> "apk upgrade", Install |-> "apk add",
                  Remove |-> "apk del", Clean |-> "apk cache clean",
                  Check |-> "apk version"],
      zypper |-> [Name |-> "zypper", Update |-> "zypper refresh",
                  Upgrade |-> "zypper update -y",
                  Install |-> "zypper install -y",
                  Remove |-> "zypper remove -y", Clean |-> "zypper clean",
                  Check |-> "zypper list-updates"] ]

\* Commands the explored hosts may or may not have.
HostCmdNames == SupportedPM \cup {"ufw"}

\* _, err := exec.LookPath(cmd); return err == nil
commandExistsInverted(cmd) == cmd \notin hostCmds
commandExists(cmd) == cmd \in hostCmds

\* return &pm, nil
DetectFound(entry) == [nil |-> FALSE, err |-> FALSE, pm |-> entry]
\* return nil, errors.New("не найден поддерживаемый менеджер пакетов")
DetectError == [nil |-> TRUE, err |-> TRUE, pm |-> [Name |-> ""]]

InitDetect ==
    /\ IdlePP
    /\ IdleIP
    /\ IdleOps
    /\ IdleMore
    /\ hostCmds \in SUBSET HostCmdNames
    /\ dvisited = {}
    /\ dpc = "range"
    /\ dret = [nil |-> TRUE, err |-> FALSE, pm |-> [Name |-> ""]]

\* one iteration of for cmd, pm := range packageManagers: Go visits the keys
\* of a map in an unspecified order
DetectIterate ==
    /\ dpc = "range"
    /\ \E cmd \in DOMAIN packageManagers \ dvisited :
         IF commandExists(cmd)
         THEN /\ dret' = DetectFound(packageManagers[cmd])
              /\ dpc' = "done"
              /\ UNCHANGED dvisited
         ELSE /\ dvisited' = dvisited \cup {cmd}
              /\ UNCHANGED <<dpc, dret>>
    /\ UNCHANGED hostCmds
    /\ OutsideDetect

\* the loop ends without a return
DetectNone ==
    /\ dpc = "range"
    /\ dvisited = DOMAIN packageManagers
    /\ dret' = DetectError
    /\ dpc' = "done"
    /\ UNCHANGED <<hostCmds, dvisited>>
    /\ OutsideDetect

NextDetect ==
    \/ DetectIterate
    \/ DetectNone

SpecDetect == InitDetect /\ [][NextDetect]_vars

\* ======================================================================
\* Running external commands; the operations' shared steps
\* ======================================================================

\* One entry of oplog. kind: "exec" a command that changes the system,
\* "query" a command that only reports, "file" a file read or written by the
\* program itself.
Ran(kind, name, port, arg, ok) ==
    [kind |-> kind, name |-> name, port |-> port, arg |-> arg, ok |-> ok]

OpNil == [nil |-> TRUE, msg |-> ""]
\* fmt.Errorf(msg + ": %v", err), or the bare err when msg is ""; msg is
\* the English rendering of the message in the source
OpError(msg) == [nil |-> FALSE, msg |-> msg]

\* if err := <run>; err != nil { return <error msg> }: the step at `here`
\* runs a command; failure ends the operation with an error, success goes on
\* at `next`.
StepIgnoringError(here, kind, name, port, arg, next, msg) ==
    /\ opc = here
    /\ \E ok \in BOOLEAN :
         oplog' = Append(oplog, Ran(kind, name, port, arg, ok))
    /\ opc' = next
    /\ UNCHANGED opret

Step(here, kind, name, port, arg, next, msg) ==
    /\ opc = here
    /\ \E ok \in BOOLEAN :
        /\ oplog' = Append(oplog, Ran(kind, name, port, arg, ok))
        /\ IF ok
           THEN opc' = next /\ UNCHANGED opret
           ELSE opc' = "done" /\ opret' = OpError(msg)

\* <run>: the step at `here` runs a command and drops its error
StepIgnored(here, kind, name, port, arg, next) ==
    /\ opc = here
    /\ \E ok \in BOOLEAN :
         oplog' = Append(oplog, Ran(kind, name, port, arg, ok))
    /\ opc' = next
    /\ UNCHANGED opret

\* <run of "... || true">: the shell masks the failure of the command, Run()
\* returns nil, and the result is dropped anyway
StepMasked(here, kind, name, next) ==
    /\ opc = here
    /\ oplog' = Append(oplog, Ran(kind, name, 0, "", TRUE))
    /\ opc' = next
    /\ UNCHANGED opret

\* return <run>: the operation ends with the command's own error or nil
StepReturn(here, kind, name) ==
    /\ opc = here
    /\ \E ok \in BOOLEAN :
        /\ oplog' = Append(oplog, Ran(kind, name, 0, "", ok))
        /\ opret' = IF ok THEN OpNil ELSE OpError("")
    /\ opc' = "done"

\* return nil
ReturnNil(here) ==
    /\ opc = here
    /\ opc' = "done"
    /\ opret' = OpNil
    /\ UNCHANGED oplog

\* What (&PackageManagerDetector{}).Detect() can return on this host.
DetectOutcomes ==
    IF hostCmds \cap DOMAIN packageManagers = {}
    THEN {DetectError}
    ELSE {DetectFound(packageManagers[c]) : c \in hostCmds \cap DOMAIN packageManagers}

\* the variables an operation other than SetupFirewall leaves alone
FrameFW == UNCHANGED <<op, config, pm, status, seenPorts, ridx, hostCmds>>

\* ======================================================================
\* SecurityManager.SetupFirewall
\* ======================================================================

\* strings.Contains on texts taken as sequences of words
Contains(text, sub) ==
    \E i \in 0 .. (Len(text) - Len(sub)) :
        \A j \in 1 .. Len(sub) : text[i + j] = sub[j]

\* Outputs of `ufw status` on the explored hosts.
UFWStatusOutputs ==
    { <<"Status:", "active", "To", "Action", "From">>,
      <<"Status:", "inactive">>,
      <<"ERROR:", "problem", "running">>,
      << >> }

\* Values of config.SSHPort and entries of config.OpenPorts explored.
SSHPortValues == {0, 22, 70000}
OpenPortValues == {0, 22, 80, 70000}
\* Values of config.Rules and config.AllowIPs explored. A rule's Comment
\* only adds a comment to the command text and is left out.
RuleValues ==
    LET allow == [Port |-> 443, Protocol |-> "tcp", Action |-> "allow"]
        deny == [Port |-> 23, Protocol |-> "tcp", Action |-> "deny"]
        reject == [Port |-> 25, Protocol |-> "udp", Action |-> "reject"]
    IN  {<< >>, <<allow>>, <<deny>>, <<reject>>, <<allow, deny>>}
AllowIPValues == {<< >>, <<"10.0.0.1">>}

FirewallConfigs ==
    [Enabled : BOOLEAN, SSHPort : SSHPortValues,
     OpenPorts : SeqUpTo(OpenPortValues, MaxOpenPorts),
     AllowIPs : AllowIPValues, Rules : RuleValues]

\* config.ValidateConfig, on the fields of Config.Security a FirewallConfig
\* is filled from (OpenPorts, FirewallRules as Rules, SSHPort): TRUE when it
\* returns nil. Its other test, of System.Timezone, concerns none of them.
ValidateConfig(cfg) ==
    /\ \A i \in DOMAIN cfg.OpenPorts :
         ~(cfg.OpenPorts[i] < 1 \/ cfg.OpenPorts[i] > 65535)
    /\ \A i \in DOMAIN cfg.Rules :
         LET rule == cfg.Rules[i]
         IN  /\ ~(rule.Port < 1 \/ rule.Port > 65535)
             /\ ~(rule.Protocol # "tcp" /\ rule.Protocol # "udp")
             /\ ~(rule.Action # "allow" /\ rule.Action # "deny")

\* if !config.Enabled { return nil }
FWEntry ==
    /\ opc = "fw_entry"
    /\ IF ~config.Enabled
       THEN opc' = "done" /\ opret' = OpNil
       ELSE opc' = "fw_lookufw" /\ UNCHANGED opret
    /\ UNCHANGED oplog
    /\ FrameFW /\ OutsideOps

\* if !sm.isUFWInstalled() { ... }
FWIsUFWInstalled ==
    /\ opc = "fw_lookufw"
    /\ opc' = IF commandExists("ufw") THEN "fw_status" ELSE "fw_install"
    /\ UNCHANGED <<oplog, opret>>
    /\ FrameFW /\ OutsideOps

\* installUFW: Detect fails
FWInstallNoPM ==
    /\ opc = "fw_install"
    /\ DetectError \in DetectOutcomes
    /\ opc' = "done"
    /\ opret' = OpError("install UFW")
    /\ UNCHANGED oplog
    /\ FrameFW /\ OutsideOps

\* installUFW: exec.Command("sh", "-c", pm.Install+" ufw").Run()
FWInstall ==
    /\ \E d \in DetectOutcomes :
        /\ ~d.err
        /\ pm' = d.pm
        /\ Step("fw_install", "exec", d.pm.Install \o " ufw", 0, "",
                "fw_status", "install UFW")
    /\ UNCHANGED <<op, config, status, seenPorts, ridx, hostCmds>>
    /\ OutsideOps

\* status, err := sm.getUFWStatus()
FWGetStatus ==
    /\ Step("fw_status", "query", "ufw status", 0, "", "fw_branch",
            "get UFW status")
    /\ \E out \in UFWStatusOutputs :
         status' = IF oplog'[Len(oplog')].ok THEN out ELSE << >>
    /\ UNCHANGED <<op, config, pm, seenPorts, ridx, hostCmds>>
    /\ OutsideOps

\* the two strings.Contains tests on status
FWBranch ==
    /\ opc = "fw_branch"
    /\ opc' = IF Contains(status, <<"Status:", "active">>)
              THEN "fw_showrules"
              ELSE IF Contains(status, <<"Status:", "inactive">>)
                   THEN "fw_reset"
                   ELSE "fw_show"
    /\ UNCHANGED <<oplog, opret>>
    /\ FrameFW /\ OutsideOps

\* a faulty variant: the return after showUFWRules is missing
FWShowRulesNoReturn ==
    /\ StepIgnored("fw_showrules", "query", "ufw status numbered", 0, "",
                   "fw_reset")
    /\ FrameFW /\ OutsideOps
\* sm.showUFWRules(); return nil
FWShowRules ==
    /\ StepIgnored("fw_showrules", "query", "ufw status numbered", 0, "",
                   "fw_return")
    /\ FrameFW /\ OutsideOps

\* sm.resetUFW()
FWReset ==
    /\ Step("fw_reset", "exec", "ufw --force reset", 0, "", "fw_deny",
            "reset UFW")
    /\ FrameFW /\ OutsideOps

\* setDefaultPolicies
FWDenyIncoming ==
    /\ Step("fw_deny", "exec", "ufw default deny incoming", 0, "",
            "fw_allowout", "set policies")
    /\ FrameFW /\ OutsideOps

FWAllowOutgoing ==
    /\ Step("fw_allowout", "exec", "ufw default allow outgoing", 0, "",
            "ar_ssh", "set policies")
    /\ FrameFW /\ OutsideOps

\* sm.enableLogging()
FWLogging ==
    /\ Step("fw_logging", "exec", "ufw logging on", 0, "", "fw_enable",
            "enable logging")
    /\ FrameFW /\ OutsideOps

\* sm.enableUFW()
FWEnable ==
    /\ Step("fw_enable", "exec", "yes | ufw enable", 0, "", "fw_show",
            "enable UFW")
    /\ FrameFW /\ OutsideOps

\* sm.showUFWStatus()
FWShowStatus ==
    /\ StepIgnored("fw_show", "query", "ufw status verbose", 0, "",
                   "fw_return")
    /\ FrameFW /\ OutsideOps

\* return nil
FWReturn ==
    /\ ReturnNil("fw_return")
    /\ FrameFW /\ OutsideOps

\* ---- applyRules (its error is wrapped by SetupFirewall)

\* the outcome of the command the step has just logged
LastOk == oplog'[Len(oplog')].ok

\* if config.SSHPort > 0 { addPortRule(config.SSHPort, "tcp", ...) }
ARSSHPort ==
    /\ opc = "ar_ssh"
    /\ IF config.SSHPort > 0
       THEN /\ Step("ar_ssh", "exec", "ufw allow", config.SSHPort, "tcp",
                    "ar_ports", "apply rules")
            /\ seenPorts' = IF LastOk THEN seenPorts \cup {config.SSHPort}
                            ELSE seenPorts
       ELSE /\ opc' = "ar_ports"
            /\ UNCHANGED <<oplog, opret, seenPorts>>
    /\ ridx' = 1
    /\ UNCHANGED <<op, config, pm, status, hostCmds>>
    /\ OutsideOps

\* a faulty variant: seenPorts is not consulted
AROpenPortNoSeen ==
    /\ opc = "ar_ports"
    /\ ridx <= Len(config.OpenPorts)
    /\ LET port == config.OpenPorts[ridx] IN
       IF port <= 0 \/ port > 65535
       THEN /\ ridx' = ridx + 1
            /\ UNCHANGED <<opc, oplog, opret, seenPorts>>
       ELSE /\ Step("ar_ports", "exec", "ufw allow", port, "tcp",
                    "ar_ports", "apply rules")
            /\ seenPorts' = IF LastOk THEN seenPorts \cup {port}
                            ELSE seenPorts
            /\ ridx' = IF LastOk THEN ridx + 1 ELSE ridx
    /\ UNCHANGED <<op, config, pm, status, hostCmds>>
    /\ OutsideOps
\* one iteration of for _, port := range config.OpenPorts
AROpenPort ==
    /\ opc = "ar_ports"
    /\ ridx <= Len(config.OpenPorts)
    /\ LET port == config.OpenPorts[ridx] IN
       IF port <= 0 \/ port > 65535 \/ port \in seenPorts
       THEN /\ ridx' = ridx + 1
            /\ UNCHANGED <<opc, oplog, opret, seenPorts>>
       ELSE /\ Step("ar_ports", "exec", "ufw allow", port, "tcp",
                    "ar_ports", "apply rules")
            /\ seenPorts' = IF LastOk THEN seenPorts \cup {port}
                            ELSE seenPorts
            /\ ridx' = IF LastOk THEN ridx + 1 ELSE ridx
    /\ UNCHANGED <<op, config, pm, status, hostCmds>>
    /\ OutsideOps

AROpenPortsDone ==
    /\ opc = "ar_ports"
    /\ ridx > Len(config.OpenPorts)
    /\ opc' = "ar_rules"
    /\ ridx' = 1
    /\ UNCHANGED <<op, config, pm, status, seenPorts, hostCmds, oplog, opret>>
    /\ OutsideOps

\* one iteration of for _, rule := range config.Rules: addCustomRule
ARCustomRule ==
    /\ opc = "ar_rules"
    /\ ridx <= Len(config.Rules)
    /\ LET rule == config.Rules[ridx] IN
       IF rule.Action \in {"allow", "deny"}
       THEN /\ Step("ar_rules", "exec", "ufw " \o rule.Action, rule.Port,
                    rule.Protocol, "ar_rules", "apply rules")
            /\ ridx' = IF LastOk THEN ridx + 1 ELSE ridx
       ELSE /\ opc' = "done"
            /\ opret' = OpError("apply rules")
            /\ UNCHANGED <<oplog, ridx>>
    /\ UNCHANGED <<op, config, pm, status, seenPorts, hostCmds>>
    /\ OutsideOps

ARCustomRulesDone ==
    /\ opc = "ar_rules"
    /\ ridx > Len(config.Rules)
    /\ opc' = "ar_ips"
    /\ ridx' = 1
    /\ UNCHANGED <<op, config, pm, status, seenPorts, hostCmds, oplog, opret>>
    /\ OutsideOps

\* one iteration of for _, ip := range config.AllowIPs: allowIP
ARAllowIP ==
    /\ ridx <= Len(config.AllowIPs)
    /\ Step("ar_ips", "exec", "ufw allow from", 0, config.AllowIPs[ridx],
            "ar_ips", "apply rules")
    /\ ridx' = IF LastOk THEN ridx + 1 ELSE ridx
    /\ UNCHANGED <<op, config, pm, status, seenPorts, hostCmds>>
    /\ OutsideOps

\* applyRules returns nil
ARDone ==
    /\ opc = "ar_ips"
    /\ ridx > Len(config.AllowIPs)
    /\ opc' = "fw_logging"
    /\ UNCHANGED <<op, config, pm, status, seenPorts, ridx, hostCmds, oplog,
                   opret>>
    /\ OutsideOps

SetupFirewall ==
    \/ FWEntry
    \/ FWIsUFWInstalled
    \/ FWInstallNoPM
    \/ FWInstall
    \/ FWGetStatus
    \/ FWBranch
    \/ FWShowRules
    \/ FWReset
    \/ FWDenyIncoming
    \/ FWAllowOutgoing
    \/ ARSSHPort
    \/ AROpenPort
    \/ AROpenPortsDone
    \/ ARCustomRule
    \/ ARCustomRulesDone
    \/ ARAllowIP
    \/ ARDone
    \/ FWLogging
    \/ FWEnable
    \/ FWShowStatus
    \/ FWReturn

\* ======================================================================
\* SecurityManager.SetupFail2ban
\* ======================================================================

\* if !sm.isFail2banInstalled() { ... }
F2BIsInstalled ==
    /\ opc = "f2b_look"
    /\ opc' = IF commandExists("fail2ban-client") THEN "f2b_config"
              ELSE "f2b_install"
    /\ UNCHANGED <<oplog, opret>>
    /\ FrameFW /\ OutsideOps

\* installFail2ban: Detect fails
F2BInstallNoPM ==
    /\ opc = "f2b_install"
    /\ DetectError \in DetectOutcomes
    /\ opc' = "done"
    /\ opret' = OpError("install Fail2ban")
    /\ UNCHANGED oplog
    /\ FrameFW /\ OutsideOps

\* installFail2ban: exec.Command("sh", "-c", pm.Install+" fail2ban").Run()
F2BInstall ==
    /\ \E d \in DetectOutcomes :
        /\ ~d.err
        /\ pm' = d.pm
        /\ Step("f2b_install", "exec", d.pm.Install \o " fail2ban", 0, "",
                "f2b_config", "install Fail2ban")
    /\ UNCHANGED <<op, config, status, seenPorts, ridx, hostCmds>>
    /\ OutsideOps

\* createFail2banConfig: os.WriteFile("/etc/fail2ban/jail.local", ...)
F2BCreateConfig ==
    /\ Step("f2b_config", "file", "write /etc/fail2ban/jail.local", 0, "",
            "f2b_enable", "create Fail2ban config")
    /\ FrameFW /\ OutsideOps

\* restartFail2ban
F2BEnable ==
    /\ Step("f2b_enable", "exec", "systemctl enable fail2ban", 0, "",
            "f2b_restart", "restart Fail2ban")
    /\ FrameFW /\ OutsideOps

F2BRestart ==
    /\ Step("f2b_restart", "exec", "systemctl restart fail2ban", 0, "",
            "f2b_return", "restart Fail2ban")
    /\ FrameFW /\ OutsideOps

F2BReturn ==
    /\ ReturnNil("f2b_return")
    /\ FrameFW /\ OutsideOps

SetupFail2ban ==
    \/ F2BIsInstalled
    \/ F2BInstallNoPM
    \/ F2BInstall
    \/ F2BCreateConfig
    \/ F2BEnable
    \/ F2BRestart
    \/ F2BReturn

\* ======================================================================
\* SecurityManager.SetupSSH
\* ======================================================================

\* backupSSHConfig: cp /etc/ssh/sshd_config /etc/ssh/sshd_config.backup.<date>
SSHBackupUnchecked ==
    /\ StepIgnoringError("ssh_backup", "exec", "cp sshd_config sshd_config.backup",
                         0, "", "ssh_read", "backup SSH")
    /\ FrameFW /\ OutsideOps

SSHBackup ==
    /\ Step("ssh_backup", "exec", "cp sshd_config sshd_config.backup", 0, "",
            "ssh_read", "backup SSH")
    /\ FrameFW /\ OutsideOps

\* configureSSH: os.ReadFile(configPath)
SSHReadConfig ==
    /\ Step("ssh_read", "file", "read sshd_config", 0, "", "ssh_write",
            "configure SSH")
    /\ FrameFW /\ OutsideOps

\* configureSSH: os.WriteFile(configPath, ...)
SSHWriteConfig ==
    /\ Step("ssh_write", "file", "write sshd_config", 0, "", "ssh_restart",
            "configure SSH")
    /\ FrameFW /\ OutsideOps

\* restartSSH: systemctl restart ssh
SSHRestart ==
    /\ Step("ssh_restart", "exec", "systemctl restart ssh", 0, "",
            "ssh_return", "restart SSH")
    /\ FrameFW /\ OutsideOps

SSHReturn ==
    /\ ReturnNil("ssh_return")
    /\ FrameFW /\ OutsideOps

SetupSSH ==
    \/ SSHBackup
    \/ SSHReadConfig
    \/ SSHWriteConfig
    \/ SSHRestart
    \/ SSHReturn

\* ======================================================================
\* SystemUtils.SetupLocale
\* ======================================================================

\* if !commandExists("locale-gen") { return fmt.Errorf(...) }
LocaleLook ==
    /\ opc = "loc_look"
    /\ IF commandExists("locale-gen")
       THEN opc' = "loc_gen" /\ UNCHANGED opret
       ELSE opc' = "done" /\ opret' = OpError("locale-gen not found")
    /\ UNCHANGED oplog
    /\ FrameFW /\ OutsideOps

LocaleGen ==
    /\ Step("loc_gen", "exec", "locale-gen", 0, "", "loc_update",
            "generate locale")
    /\ FrameFW /\ OutsideOps

\* return exec.Command("sh", "-c", "update-locale ...").Run()
LocaleUpdate ==
    /\ StepReturn("loc_update", "exec", "update-locale")
    /\ FrameFW /\ OutsideOps

SetupLocale ==
    \/ LocaleLook
    \/ LocaleGen
    \/ LocaleUpdate

\* ======================================================================
\* UpdateSystem(pm), CleanSystem(pm)
\* ======================================================================

UpdateList ==
    /\ Step("upd_update", "exec", pm.Update, 0, "", "upd_upgrade",
            "update package list")
    /\ FrameFW /\ OutsideOps

UpgradePackages ==
    /\ Step("upd_upgrade", "exec", pm.Upgrade, 0, "", "upd_return",
            "upgrade packages")
    /\ FrameFW /\ OutsideOps

UpdateReturn ==
    /\ ReturnNil("upd_return")
    /\ FrameFW /\ OutsideOps

UpdateSystem ==
    \/ UpdateList
    \/ UpgradePackages
    \/ UpdateReturn

\* return exec.Command("sh", "-c", pm.Clean).Run()
CleanSystem ==
    /\ StepReturn("cl_clean", "exec", pm.Clean)
    /\ FrameFW /\ OutsideOps

\* ======================================================================
\* SystemUtils.CleanSystem
\* ======================================================================

\* cleanTempFiles
SUCleanTmp ==
    /\ StepMasked("su_tmp", "exec", "rm -rf /tmp/* 2>/dev/null || true",
                  "su_vartmp")
    /\ FrameFW /\ OutsideOps

SUCleanVarTmp ==
    /\ StepMasked("su_vartmp", "exec", "rm -rf /var/tmp/* 2>/dev/null || true",
                  "su_pkgcache")
    /\ FrameFW /\ OutsideOps

\* cleanPackageCache: Detect fails, nothing is run
SUCleanCacheNoPM ==
    /\ opc = "su_pkgcache"
    /\ DetectError \in DetectOutcomes
    /\ opc' = "su_logs_gz"
    /\ UNCHANGED <<oplog, opret>>
    /\ FrameFW /\ OutsideOps

\* cleanPackageCache: exec.Command("sh", "-c", pm.Clean).Run(), error dropped
SUCleanCache ==
    /\ \E d \in DetectOutcomes :
        /\ ~d.err
        /\ pm' = d.pm
        /\ StepIgnored("su_pkgcache", "exec", d.pm.Clean, 0, "", "su_logs_gz")
    /\ UNCHANGED <<op, config, status, seenPorts, ridx, hostCmds>>
    /\ OutsideOps

\* cleanLogs
SUCleanLogsGz ==
    /\ StepMasked("su_logs_gz", "exec",
                  "find /var/log -type f -name '*.gz' -delete 2>/dev/null || true",
                  "su_logs_1")
    /\ FrameFW /\ OutsideOps

SUCleanLogs1 ==
    /\ StepMasked("su_logs_1", "exec",
                  "find /var/log -type f -name '*.1' -delete 2>/dev/null || true",
                  "su_journal")
    /\ FrameFW /\ OutsideOps

\* cleanSystemdCache: if commandExists("journalctl") { ....Run() }
SUCleanJournal ==
    /\ IF commandExists("journalctl")
       THEN StepIgnored("su_journal", "exec", "journalctl --vacuum-time=3d",
                        0, "", "su_return")
       ELSE /\ opc = "su_journal"
            /\ opc' = "su_return"
            /\ UNCHANGED <<oplog, opret>>
    /\ FrameFW /\ OutsideOps

\* return nil
SUReturn ==
    /\ ReturnNil("su_return")
    /\ FrameFW /\ OutsideOps

SUCleanSystem ==
    \/ SUCleanTmp
    \/ SUCleanVarTmp
    \/ SUCleanCacheNoPM
    \/ SUCleanCache
    \/ SUCleanLogsGz
    \/ SUCleanLogs1
    \/ SUCleanJournal
    \/ SUReturn

\* ======================================================================
\* The operations, each called once on some host
\* ======================================================================

Ops == {"SetupFirewall", "SetupFail2ban", "SetupSSH", "SetupLocale",
        "UpdateSystem", "CleanSystem", "SystemUtils.CleanSystem"}

\* the first position of each operation
EntryOf(o) ==
    CASE o = "SetupFirewall" -> "fw_entry"
      [] o = "SetupFail2ban" -> "f2b_look"
      [] o = "SetupSSH" -> "ssh_backup"
      [] o = "SetupLocale" -> "loc_look"
      [] o = "UpdateSystem" -> "upd_update"
      [] o = "CleanSystem" -> "cl_clean"
      [] o = "SystemUtils.CleanSystem" -> "su_tmp"

\* the commands whose presence on the host an operation asks about
LooksFor(o) ==
    CASE o = "SetupFirewall" -> {"ufw", "apt"}
      [] o = "SetupFail2ban" -> {"fail2ban-client", "apt", "dnf"}
      [] o = "SetupLocale" -> {"locale-gen"}
      [] o = "SystemUtils.CleanSystem" -> {"journalctl", "apt", "pacman"}
      [] OTHER -> {}

InitOps ==
    /\ IdlePP
    /\ IdleIP
    /\ IdleMore
    /\ dvisited = {}
    /\ dpc = "idle"
    /\ dret = [nil |-> TRUE, err |-> FALSE, pm |-> [Name |-> ""]]
    /\ op \in Ops
    /\ opc = EntryOf(op)
    /\ config \in IF op = "SetupFirewall" THEN FirewallConfigs ELSE {NoConfig}
    /\ pm \in IF op \in {"UpdateSystem", "CleanSystem"}
              THEN {packageManagers[n] : n \in DOMAIN packageManagers}
              ELSE {[Name |-> ""]}
    /\ hostCmds \in SUBSET LooksFor(op)
    /\ status = << >>
    /\ seenPorts = {}
    /\ ridx = 0
    /\ oplog = << >>
    /\ opret = OpNil

NextOps ==
    \/ SetupFirewall
    \/ SetupFail2ban
    \/ SetupSSH
    \/ SetupLocale
    \/ UpdateSystem
    \/ CleanSystem
    \/ SUCleanSystem

SpecOps == InitOps /\ [][NextOps]_vars

\* ------------------------------------------------------- ExtractManager
\* A path is modelled as its base name followed by its dot-separated
\* extensions: <<"x", "tar", "GZ">> is the path "x.tar.GZ".

\* the paths explored: the base name is a plain one or one that spells an
\* extension, the extensions are written in lower, upper or mixed case
ArchivePaths ==
    LET BaseNames == {"x", "tar"}
        ExtNames ==
            {"tar", "gz", "tgz", "bz2", "tbz2", "xz", "txz", "zip", "rar",
             "7z", "lz4", "zst", "lzop", "txt", "TAR", "GZ", "Tgz", "ZIP"}
    IN  { <<b>> \o e : b \in BaseNames,
                       e \in UNION { [1..n -> ExtNames] : n \in 0..MaxExts } }

\* strings.ToLower on one name
ToLowerName(name) ==
    CASE name = "TAR" -> "tar"
      [] name = "GZ"  -> "gz"
      [] name = "Tgz" -> "tgz"
      [] name = "ZIP" -> "zip"
      [] OTHER -> name

\* a faulty variant: the case of the path is kept
KeepCase(path) == path
\* strings.ToLower(filepath)
ToLower(path) == [i \in DOMAIN path |-> ToLowerName(path[i])]

\* strings.HasSuffix(path, format) for a format ".e1.e2": the path ends with
\* a dot and the format's extensions, so the base name is never part of it
HasSuffix(path, format) ==
    /\ Len(path) > Len(format)
    /\ SubSeq(path, Len(path) - Len(format) + 1, Len(path)) = format

\* SupportedFormats(), in the order of the slice
SupportedFormats ==
    << <<"tar", "gz">>, <<"tgz">>, <<"tar", "bz2">>, <<"tbz2">>,
       <<"tar", "xz">>, <<"txz">>, <<"tar">>, <<"gz">>, <<"bz2">>, <<"xz">>,
       <<"zip">>, <<"rar">>, <<"7z">>, <<"lz4">>, <<"zst">>, <<"lzop">>,
       <<"tar", "zst">>, <<"tar", "lz4">> >>

\* isArchive: HasSuffix on the path as given (the lowered ext is not used)
isArchive(path) ==
    \E i \in DOMAIN SupportedFormats : HasSuffix(path, SupportedFormats[i])

\* detectArchiveType: the cases of the switch are tried in source order
detectArchiveType(path) ==
    LET filename == ToLower(path)
        ends(format) == HasSuffix(filename, format)
    IN  IF ends(<<"tar", "gz">>) \/ ends(<<"tgz">>) THEN "tar.gz"
        ELSE IF ends(<<"tar", "bz2">>) \/ ends(<<"tbz2">>) THEN "tar.bz2"
        ELSE IF ends(<<"tar", "xz">>) \/ ends(<<"txz">>) THEN "tar.xz"
        ELSE IF ends(<<"tar", "zst">>) THEN "tar.zst"
        ELSE IF ends(<<"tar", "lz4">>) THEN "tar.lz4"
        ELSE IF ends(<<"tar">>) THEN "tar"
        ELSE IF ends(<<"gz">>) THEN "gz"
        ELSE IF ends(<<"bz2">>) THEN "bz2"
        ELSE IF ends(<<"xz">>) THEN "xz"
        ELSE IF ends(<<"zip">>) THEN "zip"
        ELSE IF ends(<<"rar">>) THEN "rar"
        ELSE IF ends(<<"7z">>) THEN "7z"
        ELSE IF ends(<<"lz4">>) THEN "lz4"
        ELSE IF ends(<<"zst">>) THEN "zst"
        ELSE IF ends(<<"lzop">>) THEN "lzop"
        ELSE "unknown"

\* extractArchive: the method its switch selects for an archive type, or
\* "default" for the default case
extractArchiveCase(type) ==
    CASE type \in {"tar.gz", "tgz"}   -> "extractTarGz"
      [] type \in {"tar.bz2", "tbz2"} -> "extractTarBz2"
      [] type \in {"tar.xz", "txz"}   -> "extractTarXz"
      [] type = "tar"     -> "extractTar"
      [] type = "gz"      -> "extractGz"
      [] type = "bz2"     -> "extractBz2"
      [] type = "xz"      -> "extractXz"
      [] type = "zip"     -> "extractZip"
      [] type = "rar"     -> "extractRar"
      [] type = "7z"      -> "extract7z"
      [] type = "lz4"     -> "extractLz4"
      [] type = "zst"     -> "extractZstd"
      [] type = "lzop"    -> "extractLzop"
      [] type = "tar.zst" -> "extractTarZstd"
      [] type = "tar.lz4" -> "extractTarLz4"
      [] OTHER -> "default"

\* Extract, line 61: the isArchive gate.
\* fmt.Errorf("неподдерживаемый формат архива: %s", archivePath)
ExtractEntry ==
    /\ apc = "ex_entry"
    /\ IF isArchive(archivePath)
       THEN apc' = "ex_mkdir" /\ aret' = aret
       ELSE apc' = "done" /\ aret' = OpError("unsupported archive format")
    /\ UNCHANGED <<aop, archivePath, archiveType, extractor>>
    /\ OutsideArchive

\* Extract, lines 66-78: os.MkdirAll, then extractWith(out)Progress, which
\* differ by a spinner only
ExtractMkdirAll ==
    /\ apc = "ex_mkdir"
    /\ \E ok \in BOOLEAN :
         IF ok
         THEN apc' = "ea_entry" /\ aret' = aret
         ELSE apc' = "done" /\ aret' = OpError("create directory")
    /\ UNCHANGED <<aop, archivePath, archiveType, extractor>>
    /\ OutsideArchive

\* extractArchive, lines 262-297: the archive type is detected and the switch
\* calls one extract method, or returns the error of the default case
extractArchive ==
    /\ apc = "ea_entry"
    /\ archiveType' = detectArchiveType(archivePath)
    /\ IF extractArchiveCase(archiveType') = "default"
       THEN /\ apc' = "done"
            /\ aret' = OpError("unsupported archive format")
            /\ extractor' = extractor
       ELSE /\ apc' = "ea_run"
            /\ extractor' = extractArchiveCase(archiveType')
            /\ aret' = aret
    /\ UNCHANGED <<aop, archivePath>>
    /\ OutsideArchive

\* the selected extract method runs its external command and its error, if
\* any, is what extractArchive returns
EARun ==
    /\ apc = "ea_run"
    /\ \E ok \in BOOLEAN :
         aret' = IF ok THEN OpNil ELSE OpError("exit status")
    /\ apc' = "done"
    /\ UNCHANGED <<aop, archivePath, archiveType, extractor>>
    /\ OutsideArchive

\* the method entered is Extract, or extractArchive on its own
InitArchive ==
    /\ IdleFirst
    /\ IdleSSHD
    /\ IdlePrev
    /\ IdleSwap
    /\ IdleMerge
    /\ aop \in {"Extract", "extractArchive"}
    /\ archivePath \in ArchivePaths
    /\ apc = IF aop = "Extract" THEN "ex_entry" ELSE "ea_entry"
    /\ archiveType = ""
    /\ extractor = ""
    /\ aret = OpNil

NextArchive ==
    \/ ExtractEntry
    \/ ExtractMkdirAll
    \/ extractArchive
    \/ EARun

SpecArchive == InitArchive /\ [][NextArchive]_vars

\* --------------------------------------------------------- configureSSH
\* strings.Split(text, "\n"): the lines between the line breaks; a text
\* without a line break is one line
RECURSIVE Split(_)
Split(text) ==
    IF \A i \in DOMAIN text : text[i] # "\n"
    THEN <<text>>
    ELSE LET brk == CHOOSE i \in DOMAIN text :
                      text[i] = "\n" /\ \A j \in 1..(i - 1) : text[j] # "\n"
         IN  <<SubSeq(text, 1, brk - 1)>> \o Split(SubSeq(text, brk + 1, Len(text)))

\* strings.Join(lines, "\n")
RECURSIVE Join(_)
Join(lines) ==
    IF lines = << >> THEN << >>
    ELSE IF Len(lines) = 1 THEN lines[1]
    ELSE lines[1] \o <<"\n">> \o Join(Tail(lines))

\* strings.TrimSpace(line)
RECURSIVE TrimSpace(_)
TrimSpace(line) ==
    LET IsSpace(w) == w \in {" ", "\t", "\r"}
    IN  IF line = << >> THEN line
        ELSE IF IsSpace(line[1]) THEN TrimSpace(Tail(line))
        ELSE IF IsSpace(line[Len(line)]) THEN TrimSpace(SubSeq(line, 1, Len(line) - 1))
        ELSE line

\* strings.HasPrefix(line, prefix), the prefix ending at a word boundary
HasPrefix(line, prefix) ==
    /\ Len(line) >= Len(prefix)
    /\ SubSeq(line, 1, Len(prefix)) = prefix

\* a faulty variant: a line that is not replaced is written back trimmed
editLineTrimmed(line, args) ==
    LET trimmed == TrimSpace(line)
        Itoa(n) == CASE n = 22 -> "22" [] n = 2222 -> "2222"
        YesNo(b) == IF b THEN "yes" ELSE "no"
    IN  IF HasPrefix(trimmed, <<"#">>) \/ trimmed = << >> THEN trimmed
        ELSE IF HasPrefix(trimmed, <<"Port", " ">>)
             THEN <<"Port", " ", Itoa(args.port)>>
        ELSE IF HasPrefix(trimmed, <<"PermitRootLogin", " ">>)
             THEN <<"PermitRootLogin", " ", YesNo(args.allowRoot)>>
        ELSE IF HasPrefix(trimmed, <<"PasswordAuthentication", " ">>)
             THEN <<"PasswordAuthentication", " ", YesNo(args.passwordAuth)>>
        ELSE trimmed
\* configureSSH, lines 330-359: what one pass of the loop appends to newLines
editLine(line, args) ==
    LET trimmed == TrimSpace(line)
        Itoa(n) == CASE n = 22 -> "22" [] n = 2222 -> "2222"
        YesNo(b) == IF b THEN "yes" ELSE "no"
    IN  IF HasPrefix(trimmed, <<"#">>) \/ trimmed = << >> THEN line
        ELSE IF HasPrefix(trimmed, <<"Port", " ">>)
             THEN <<"Port", " ", Itoa(args.port)>>
        ELSE IF HasPrefix(trimmed, <<"PermitRootLogin", " ">>)
             THEN <<"PermitRootLogin", " ", YesNo(args.allowRoot)>>
        ELSE IF HasPrefix(trimmed, <<"PasswordAuthentication", " ">>)
             THEN <<"PasswordAuthentication", " ", YesNo(args.passwordAuth)>>
        ELSE line

\* configureSSH, lines 362-371
recommendedSettings ==
    << << >>,
       <<"#", " ", "Additional", " ", "security", " ", "settings">>,
       <<"Protocol", " ", "2">>,
       <<"ClientAliveInterval", " ", "300">>,
       <<"ClientAliveCountMax", " ", "2">>,
       <<"MaxAuthTries", " ", "3">>,
       <<"MaxSessions", " ", "10">>,
       <<"X11Forwarding", " ", "no">> >>

\* configureSSH: the file is read, every line is passed through the loop,
\* the recommended settings are appended and the file is written; a failed
\* read or a failed open for writing leaves the file as it was
configureSSH ==
    /\ sshRuns < MaxRuns
    /\ sshRuns' = sshRuns + 1
    /\ sshdBefore' = sshdConfig
    /\ \E outcome \in {"ok", "read fails", "write fails"} :
         IF outcome = "ok"
         THEN LET lines == Split(sshdConfig)
                  newLines == [i \in DOMAIN lines |-> editLine(lines[i], sshArgs)]
                                \o recommendedSettings
              IN  /\ sshdConfig' = Join(newLines)
                  /\ sshret' = OpNil
         ELSE /\ sshdConfig' = sshdConfig
              /\ sshret' = OpError(outcome)
    /\ UNCHANGED sshArgs
    /\ OutsideSSHD

\* the lines sshd_config is made of before the first call: blank, comment,
\* the three directives, one of them indented, another directive indented,
\* and a Port directive written with a tab
SSHDLines ==
    { << >>,
      <<"#", "Port", " ", "22">>,
      <<"Port", " ", "22">>,
      <<" ", "Port", " ", "22">>,
      <<"PermitRootLogin", " ", "yes">>,
      <<"PasswordAuthentication", " ", "yes">>,
      <<" ", "UsePAM", " ", "yes">>,
      <<"Port", "\t", "22">> }

InitSSHD ==
    /\ IdleFirst
    /\ IdleArchive
    /\ IdlePrev
    /\ IdleSwap
    /\ IdleMerge
    /\ sshdConfig \in { Join(ls) : ls \in SeqUpTo(SSHDLines, MaxLines) }
    /\ sshdBefore = sshdConfig
    /\ sshArgs \in [port : {22, 2222}, allowRoot : BOOLEAN, passwordAuth : BOOLEAN]
    /\ sshRuns = 0
    /\ sshret = OpNil

SpecSSHD == InitSSHD /\ [][configureSSH]_vars

\* ======================================================================
\* SystemUtils.SetupSwap(swapSize)  (system utilities)
\* ======================================================================

\* 1024*1024, the divisor of fmt.Sprintf("%dM", swapBytes/(1024*1024))
MiB == 1024 * 1024

\* A uint64 byte count n, kept as n = mib * MiB + rest with 0 <= rest < MiB:
\* the counts of this code pass 2^31, the largest integer of the checker.
Bytes(m, r) == [mib |-> m + (r \div MiB), rest |-> r % MiB]

\* strings are sequences of characters; the i-th character of s
Char(s, i) == SubSeq(s, i, i)

\* unicode.IsSpace for the characters of command output
IsSpace(c) == c \in {" ", "\t", "\n", "\r", "\f"}

\* strings.Split(s, sep) for a separator of one character
RECURSIVE SplitString(_, _)
SplitString(s, sep) ==
    LET at == { i \in 1..Len(s) : Char(s, i) = sep }
    IN  IF at = {}
        THEN << s >>
        ELSE LET i == CHOOSE k \in at : \A j \in at : k <= j
             IN  << SubSeq(s, 1, i - 1) >>
                     \o SplitString(SubSeq(s, i + 1, Len(s)), sep)

\* strings.Fields(s): the maximal runs of characters that are not white space
RECURSIVE Fields(_)
Fields(s) ==
    LET ink == { i \in 1..Len(s) : ~IsSpace(Char(s, i)) }
    IN  IF ink = {}
        THEN << >>
        ELSE LET a == CHOOSE k \in ink : \A j \in ink : k <= j
                 gaps == { i \in a..Len(s) : IsSpace(Char(s, i)) }
                 b == IF gaps = {} THEN Len(s) + 1
                      ELSE CHOOSE k \in gaps : \A j \in gaps : k <= j
             IN  << SubSeq(s, a, b - 1) >> \o Fields(SubSeq(s, b, Len(s)))

\* strings.TrimSpace(s) of a string
TrimSpaceString(s) ==
    LET ink == { i \in 1..Len(s) : ~IsSpace(Char(s, i)) }
    IN  IF ink = {}
        THEN ""
        ELSE SubSeq(s, CHOOSE k \in ink : \A j \in ink : k <= j,
                       CHOOSE k \in ink : \A j \in ink : k >= j)

\* strings.ToUpper(s)
RECURSIVE ToUpper(_)
ToUpper(s) ==
    LET lower == "abcdefghijklmnopqrstuvwxyz"
        upper == "ABCDEFGHIJKLMNOPQRSTUVWXYZ"
        up(c) == IF \E i \in 1..26 : Char(lower, i) = c
                 THEN Char(upper, CHOOSE i \in 1..26 : Char(lower, i) = c)
                 ELSE c
    IN  IF s = "" THEN "" ELSE up(Char(s, 1)) \o ToUpper(SubSeq(s, 2, Len(s)))

\* strings.TrimSuffix(s, suffix) for a suffix of one character
TrimSuffix(s, suffix) ==
    IF Len(s) >= 1 /\ Char(s, Len(s)) = suffix
    THEN SubSeq(s, 1, Len(s) - 1)
    ELSE s

\* the value of a string of decimal digits
RECURSIVE DecimalValue(_)
DecimalValue(t) ==
    IF t = ""
    THEN Bytes(0, 0)
    ELSE LET v == DecimalValue(SubSeq(t, 1, Len(t) - 1))
             d == CHOOSE k \in 0..9 : ToString(k) = Char(t, Len(t))
         IN  Bytes(v.mib * 10, v.rest * 10 + d)

\* parseBytes(s): an upper-cased suffix G, M or K selects the multiplier and
\* is cut off; fmt.Sscanf(s, "%d", &value) reads the leading decimal digits
\* and fails when there is none. Values stay far below 2^64 here.
parseBytes(s) ==
    LET up == ToUpper(s)
        k == IF TrimSuffix(up, "G") # up THEN 3
             ELSE IF TrimSuffix(up, "M") # up THEN 2
             ELSE IF TrimSuffix(up, "K") # up THEN 1
             ELSE 0
        num == IF k = 0 THEN up ELSE SubSeq(up, 1, Len(up) - 1)
        IsDigit(c) == \E d \in 0..9 : ToString(d) = c
        stops == { i \in 1..Len(num) : ~IsDigit(Char(num, i)) }
        n == IF stops = {} THEN Len(num)
             ELSE (CHOOSE i \in stops : \A j \in stops : i <= j) - 1
        value == DecimalValue(SubSeq(num, 1, n))
        times1024(v) == Bytes(v.mib * 1024, v.rest * 1024)
        scaled == IF k = 0 THEN value
                  ELSE IF k = 1 THEN times1024(value)
                  ELSE IF k = 2 THEN times1024(times1024(value))
                  ELSE times1024(times1024(times1024(value)))
    IN  IF n = 0
        THEN [err |-> TRUE, value |-> Bytes(0, 0)]
        ELSE [err |-> FALSE, value |-> scaled]

\* a faulty variant: the upper limit of the middle range is exclusive
calculateSwapSizeExclusive(info) ==
    IF info.err
    THEN "2G"
    ELSE LET lines == SplitString(info.out, "\n")
             parts == IF Len(lines) > 1 THEN Fields(lines[2]) ELSE << >>
             parsed == IF Len(parts) >= 2 THEN parseBytes(parts[2])
                       ELSE [err |-> TRUE, value |-> Bytes(0, 0)]
             memBytes == parsed.value
             swapBytes ==
                 IF memBytes.mib < 2 * 1024
                 THEN Bytes(memBytes.mib * 2, memBytes.rest * 2)
                 ELSE IF memBytes.mib < 8 * 1024
                 THEN memBytes
                 ELSE Bytes(memBytes.mib \div 2,
                            ((memBytes.mib % 2) * MiB + memBytes.rest) \div 2)
         IN  IF parsed.err THEN "2G" ELSE ToString(swapBytes.mib) \o "M"

\* calculateSwapSize(): the size for the RAM that `free -b` reports in the
\* second field of its second line; "2G" when that cannot be had. The error
\* result is always nil.
calculateSwapSize(info) ==
    IF info.err
    THEN "2G"
    ELSE LET lines == SplitString(info.out, "\n")
             parts == IF Len(lines) > 1 THEN Fields(lines[2]) ELSE << >>
             parsed == IF Len(parts) >= 2 THEN parseBytes(parts[2])
                       ELSE [err |-> TRUE, value |-> Bytes(0, 0)]
             memBytes == parsed.value
             \* memBytes < 2*1024*1024*1024
             below2G == memBytes.mib < 2 * 1024
             \* memBytes <= 8*1024*1024*1024
             upTo8G == \/ memBytes.mib < 8 * 1024
                       \/ memBytes.mib = 8 * 1024 /\ memBytes.rest = 0
             swapBytes ==
                 IF below2G
                 THEN Bytes(memBytes.mib * 2, memBytes.rest * 2)
                 ELSE IF upTo8G
                 THEN memBytes
                 ELSE Bytes(memBytes.mib \div 2,
                            ((memBytes.mib % 2) * MiB + memBytes.rest) \div 2)
         IN  IF parsed.err THEN "2G" ELSE ToString(swapBytes.mib) \o "M"

\* the RAM sizes in bytes, as decimal text, the hosts of the model have
RAMTexts ==
    {"0", "1048575", "1073741824", "2147483647", "2147483648", "4294967296",
     "8589934591", "8589934592", "8589934593", "8590983168", "17179869184"}

\* the output of `free -b` on a host with `total` bytes of RAM
FreeOutput(total) ==
    "       total used free\nMem: " \o total \o " 1024 2048\nSwap: 0 0 0\n"

\* what exec.Command("free", "-b").Output() can give: failure, the usual
\* table, and outputs without a readable total
FreeOutputs ==
    { [err |-> TRUE, out |-> ""] }
        \cup { [err |-> FALSE, out |-> FreeOutput(t)] : t \in RAMTexts }
        \cup { [err |-> FALSE, out |-> o] :
                 o \in {"", "total used free", "total used free\nMem:\n",
                        "total used free\nMem: unknown 0\n",
                        "total used free\nMem: 4g 0\n"} }

\* what exec.Command("swapon", "--show").Output() can give: nothing when no
\* swap is in use, the table of the swap areas otherwise, each with or
\* without a failure of the command
SwaponOutputs ==
    { [err |-> e, out |-> o] :
        e \in BOOLEAN,
        o \in {"", "NAME TYPE SIZE\n/swapfile file 2G\n"} }

\* everything of a SetupSwap step that is not the log, the position, the
\* result or the size
FrameSwap ==
    UNCHANGED <<op, config, pm, status, seenPorts, ridx, hostCmds,
                memInfo, swapInfo>>

OutsideSwap ==
    UNCHANGED <<ppvars, ipvars, dvisited, dpc, dret, avars, svars, prevCall,
                mvars>>

\* a faulty variant: swap in use does not end the call
SwapShowGoesOn ==
    /\ opc = "sw_show"
    /\ oplog' = Append(oplog, Ran("query", "swapon --show", 0, "",
                                  ~swapInfo.err))
    /\ opc' = "sw_size"
    /\ UNCHANGED <<opret, swapSize>>
    /\ FrameSwap /\ OutsideSwap

\* if swapInfo, err := exec.Command("swapon", "--show").Output(); err == nil {
\*     if strings.TrimSpace(string(swapInfo)) != "" { return error } }
SwapShow ==
    /\ opc = "sw_show"
    /\ oplog' = Append(oplog, Ran("query", "swapon --show", 0, "",
                                  ~swapInfo.err))
    /\ IF ~swapInfo.err /\ TrimSpaceString(swapInfo.out) # ""
       THEN opc' = "done" /\ opret' = OpError("swap is already configured")
       ELSE opc' = "sw_size" /\ UNCHANGED opret
    /\ UNCHANGED swapSize
    /\ FrameSwap /\ OutsideSwap

\* if swapSize == "" { swapSize, err = su.calculateSwapSize() ... }: the
\* error branch is never taken, calculateSwapSize returns a nil error
SwapSize ==
    /\ opc = "sw_size"
    /\ IF swapSize = ""
       THEN /\ oplog' = Append(oplog, Ran("query", "free -b", 0, "",
                                          ~memInfo.err))
            /\ swapSize' = calculateSwapSize(memInfo)
       ELSE UNCHANGED <<oplog, swapSize>>
    /\ opc' = "sw_remove"
    /\ UNCHANGED opret
    /\ FrameSwap /\ OutsideSwap

\* createSwapFile: os.Remove(swapFile)
SwapRemove ==
    /\ StepIgnored("sw_remove", "file", "remove /swapfile", 0, "",
                   "sw_fallocate")
    /\ UNCHANGED swapSize
    /\ FrameSwap /\ OutsideSwap

\* createSwapFile: fallocate -l <size> /swapfile; when it fails, dd follows
SwapFallocate ==
    /\ opc = "sw_fallocate"
    /\ \E ok \in BOOLEAN :
        /\ oplog' = Append(oplog, Ran("exec", "fallocate", 0, swapSize, ok))
        /\ opc' = IF ok THEN "sw_chmod" ELSE "sw_dd"
    /\ UNCHANGED <<opret, swapSize>>
    /\ FrameSwap /\ OutsideSwap

\* createSwapFile: dd ... bs=1M count=<strings.TrimSuffix(size, "G")>
SwapDd ==
    /\ Step("sw_dd", "exec", "dd", 0, TrimSuffix(swapSize, "G"), "sw_chmod",
            "create swap file")
    /\ UNCHANGED swapSize
    /\ FrameSwap /\ OutsideSwap

\* createSwapFile: return exec.Command("chmod", "600", swapFile).Run(), and
\* SetupSwap returns that error as it is
SwapChmod ==
    /\ Step("sw_chmod", "exec", "chmod 600", 0, "", "sw_mkswap", "")
    /\ UNCHANGED swapSize
    /\ FrameSwap /\ OutsideSwap

\* configureSwap: mkswap /swapfile
SwapMkswap ==
    /\ Step("sw_mkswap", "exec", "mkswap", 0, "", "sw_swapon", "format swap")
    /\ UNCHANGED swapSize
    /\ FrameSwap /\ OutsideSwap

\* configureSwap: swapon /swapfile
SwapSwapon ==
    /\ Step("sw_swapon", "exec", "swapon", 0, "", "sw_fstab_open",
            "enable swap")
    /\ UNCHANGED swapSize
    /\ FrameSwap /\ OutsideSwap

\* configureSwap: os.OpenFile("/etc/fstab", os.O_APPEND|os.O_WRONLY, 0644)
SwapFstabOpen ==
    /\ Step("sw_fstab_open", "file", "open /etc/fstab", 0, "",
            "sw_fstab_write", "open fstab")
    /\ UNCHANGED swapSize
    /\ FrameSwap /\ OutsideSwap

\* configureSwap: f.WriteString(fstabEntry), then return nil to SetupSwap
SwapFstabWrite ==
    /\ Step("sw_fstab_write", "file", "append /etc/fstab", 0, "",
            "sw_sysctl_file", "write fstab")
    /\ UNCHANGED swapSize
    /\ FrameSwap /\ OutsideSwap

\* configureSwappiness: os.WriteFile(configFile, ...)
SwapSysctlFile ==
    /\ Step("sw_sysctl_file", "file", "write 99-swappiness.conf", 0, "",
            "sw_sysctl", "write swappiness configuration")
    /\ UNCHANGED swapSize
    /\ FrameSwap /\ OutsideSwap

\* configureSwappiness: return exec.Command("sysctl", "-p", configFile).Run()
SwapSysctl ==
    /\ StepReturn("sw_sysctl", "exec", "sysctl -p")
    /\ UNCHANGED swapSize
    /\ FrameSwap /\ OutsideSwap

SetupSwap ==
    \/ SwapShow
    \/ SwapSize
    \/ SwapRemove
    \/ SwapFallocate
    \/ SwapDd
    \/ SwapChmod
    \/ SwapMkswap
    \/ SwapSwapon
    \/ SwapFstabOpen
    \/ SwapFstabWrite
    \/ SwapSysctlFile
    \/ SwapSysctl

InitSwap ==
    /\ IdlePP
    /\ IdleIP
    /\ IdleArchive
    /\ IdleSSHD
    /\ IdlePrev
    /\ IdleMerge
    /\ dvisited = {}
    /\ dpc = "idle"
    /\ dret = [nil |-> TRUE, err |-> FALSE, pm |-> [Name |-> ""]]
    /\ hostCmds = {}
    /\ op = "SetupSwap"
    /\ opc = "sw_show"
    /\ config = NoConfig
    /\ pm = [Name |-> ""]
    /\ status = << >>
    /\ seenPorts = {}
    /\ ridx = 0
    /\ oplog = << >>
    /\ opret = OpNil
    /\ swapSize \in {"", "1G", "512M"}
    /\ memInfo \in FreeOutputs
    /\ swapInfo \in SwaponOutputs

SpecSwap == InitSwap /\ [][SetupSwap]_vars

\* ======================================================================
\* MergeConfigs(base, override)  (configuration)
\* ======================================================================

\* A *Config argument or result: nil, or a pointer to a Config. The fields
\* kept are the ones MergeConfigs assigns, and Language and Database for the
\* ones it leaves as they are in the copy of *base.
ZeroConfig ==
    [System |-> [Timezone |-> "", Hostname |-> "", SwapSize |-> "",
                 Language |-> ""],
     Security |-> [SSHPort |-> 0, OpenPorts |-> << >>, AllowIPs |-> << >>],
     Packages |-> [Basic |-> << >>, Archive |-> << >>, Network |-> << >>,
                   Monitoring |-> << >>, Development |-> << >>,
                   Security |-> << >>, System |-> << >>, Database |-> << >>]]

NilConfig == [nil |-> TRUE, cfg |-> ZeroConfig]

\* the configurations of one side: every assigned field is empty (zero) or
\* holds the side's value, and the package lists are all empty or the side's
ConfigsOf(tz, host, swap, lang, port, ports, ips, pkgs) ==
    { [System |-> [Timezone |-> t, Hostname |-> h, SwapSize |-> s,
                   Language |-> lang],
       Security |-> [SSHPort |-> p, OpenPorts |-> o, AllowIPs |-> a],
       Packages |-> k] :
        t \in {"", tz}, h \in {"", host}, s \in {"", swap}, p \in {0, port},
        o \in {<< >>, ports}, a \in {<< >>, ips},
        k \in {ZeroConfig.Packages, pkgs} }

BaseConfigs ==
    ConfigsOf("Europe/Moscow", "srv-a", "1G", "ru", 22, <<80>>,
              <<"10.0.0.1">>,
              [Basic |-> <<"curl", "git">>, Archive |-> <<"zip", "zip">>,
               Network |-> << >>, Monitoring |-> <<"htop">>,
               Development |-> << >>, Security |-> << >>,
               System |-> << >>, Database |-> <<"sqlite">>])

OverrideConfigs ==
    ConfigsOf("UTC", "srv-b", "2G", "en", 2222, <<443, 8080>>,
              <<"10.0.0.2">>,
              [Basic |-> <<"git", "vim">>, Archive |-> << >>,
               Network |-> <<"nmap">>, Monitoring |-> <<"htop">>,
               Development |-> << >>, Security |-> << >>,
               System |-> << >>, Database |-> <<"redis">>])

\* a faulty variant: the lists are appended
mergePackageListsAppended(b, o) == { b \o o }

\* mergePackageLists(base, override): the keys of a map filled from both
\* lists, in the order the range over the map yields them, which Go leaves
\* open: every arrangement of the distinct packages is a possible result
mergePackageLists(b, o) ==
    LET packageMap == { b[i] : i \in DOMAIN b } \cup { o[i] : i \in DOMAIN o }
        n == Cardinality(packageMap)
    IN  { result \in [1..n -> packageMap] :
            \A i, j \in 1..n : result[i] = result[j] => i = j }

OutsideMerge ==
    UNCHANGED <<ppvars, ipvars, dtvars, opvars, avars, svars, prevCall, wvars>>

MergeConfigs ==
    /\ merged.from = "none"
    /\ IF base.nil
       THEN \* return override
            merged' = [from |-> "override", nil |-> override.nil,
                       cfg |-> override.cfg]
       ELSE IF override.nil
       THEN \* return base
            merged' = [from |-> "base", nil |-> FALSE, cfg |-> base.cfg]
       ELSE LET b == base.cfg
                o == override.cfg
            IN  \E basic \in mergePackageLists(b.Packages.Basic,
                                               o.Packages.Basic),
                   archive \in mergePackageLists(b.Packages.Archive,
                                                 o.Packages.Archive),
                   network \in mergePackageLists(b.Packages.Network,
                                                 o.Packages.Network),
                   monitoring \in mergePackageLists(b.Packages.Monitoring,
                                                    o.Packages.Monitoring),
                   development \in mergePackageLists(b.Packages.Development,
                                                     o.Packages.Development),
                   security \in mergePackageLists(b.Packages.Security,
                                                  o.Packages.Security),
                   system \in mergePackageLists(b.Packages.System,
                                                o.Packages.System) :
                  merged' =
                    [from |-> "new", nil |-> FALSE,
                     cfg |->
                       [System |->
                          [Timezone |-> IF o.System.Timezone # ""
                                        THEN o.System.Timezone
                                        ELSE b.System.Timezone,
                           Hostname |-> IF o.System.Hostname # ""
                                        THEN o.System.Hostname
                                        ELSE b.System.Hostname,
                           SwapSize |-> IF o.System.SwapSize # ""
                                        THEN o.System.SwapSize
                                        ELSE b.System.SwapSize,
                           Language |-> b.System.Language],
                        Security |->
                          [SSHPort |-> IF o.Security.SSHPort # 0
                                       THEN o.Security.SSHPort
                                       ELSE b.Security.SSHPort,
                           OpenPorts |-> IF Len(o.Security.OpenPorts) > 0
                                         THEN o.Security.OpenPorts
                                         ELSE b.Security.OpenPorts,
                           AllowIPs |-> IF Len(o.Security.AllowIPs) > 0
                                        THEN o.Security.AllowIPs
                                        ELSE b.Security.AllowIPs],
                        Packages |->
                          [Basic |-> basic, Archive |-> archive,
                           Network |-> network, Monitoring |-> monitoring,
                           Development |-> development,
                           Security |-> security, System |-> system,
                           Database |-> b.Packages.Database]]]
    /\ UNCHANGED <<base, override>>
    /\ OutsideMerge

InitMerge ==
    /\ IdleFirst
    /\ IdleArchive
    /\ IdleSSHD
    /\ IdlePrev
    /\ IdleSwap
    /\ base \in {NilConfig} \cup { [nil |-> FALSE, cfg |-> c] : c \in BaseConfigs }
    /\ override \in {NilConfig}
                      \cup { [nil |-> FALSE, cfg |-> c] : c \in OverrideConfigs }
    /\ merged = [from |-> "none", nil |-> TRUE, cfg |-> ZeroConfig]

SpecMerge == InitMerge /\ [][MergeConfigs]_vars

\* ---------------------------------------------------------------- claims

\* C1: if every task function returns, ParallelProgress returns, having
\* received exactly one result per task: the collect loop has run len(tasks)
\* times, the channel is empty and every goroutine has finished.
C1_ParallelProgressReturns ==
    <>( /\ mainpc = "returned"
        /\ ci = ntasks
        /\ bar = ntasks
        /\ results = <<>>
        /\ \A idx \in TaskIdx : gpc[idx] = "done" )

\* ParallelProgress has returned after tasks completed out of index order.
C1_Witness ==
    /\ mainpc = "returned"
    /\ ntasks >= 2
    /\ Len(errors) >= 2
    /\ errors[1].index > errors[2].index

\* C2: the channel never holds more results than its capacity len(tasks),
\* every finished goroutine has sent exactly one result, and a goroutine
\* that is about to send always finds room in the buffer.
C2_SendNeverBlocks ==
    /\ Len(results) <= ResultsCap
    /\ Cardinality({idx \in TaskIdx : gpc[idx] = "done"}) = Len(results) + ci
    /\ \A idx \in TaskIdx : gpc[idx] = "send" => Len(results) < ResultsCap

\* Every goroutine has sent before the collector received anything: the
\* buffer is full.
C2_Witness ==
    /\ ntasks >= 2
    /\ Len(results) = ntasks
    /\ ci = 0

\* C3: every index the start loop has passed has its goroutine started,
\* whatever the other tasks have returned so far; no task function is
\* invoked twice, and when ParallelProgress returns each was invoked once.
C3_EveryTaskStartedOnce ==
    /\ \A idx \in TaskIdx : calls[idx] <= 1
    /\ \A idx \in TaskIdx : (idx < si) <=> (gpc[idx] # "none")
    /\ mainpc # "start" => si = ntasks
    /\ mainpc = "returned" => \A idx \in TaskIdx : calls[idx] = 1

\* The first task failed and every task was still invoked once.
C3_Witness ==
    /\ mainpc = "returned"
    /\ ntasks >= 2
    /\ ~terr[0].nil
    /\ \A idx \in TaskIdx : calls[idx] = 1

\* C4: ParallelProgress returns nil exactly when every task returned nil;
\* otherwise the aggregated error counts the failed tasks, and the collected
\* errors are those of the failed tasks, each tagged with its task's index.
C4_AggregatedErrors ==
    LET failed == {idx \in TaskIdx : ~terr[idx].nil} IN
    mainpc = "returned" =>
        /\ ppret.nil <=> failed = {}
        /\ ~ppret.nil =>
            /\ ppret.count = Cardinality(failed)
            /\ Len(ppret.errors) = ppret.count
            /\ {ppret.errors[j].index : j \in 1 .. Len(ppret.errors)} = failed
            /\ \A j \in 1 .. Len(ppret.errors) :
                 ppret.errors[j].err = ErrOf(ppret.errors[j].index)

\* Two tasks failed, one succeeded, and the failures arrived out of order.
C4_Witness ==
    /\ mainpc = "returned"
    /\ ~ppret.nil
    /\ ppret.count = 2
    /\ ntasks = 3
    /\ ppret.errors[1].index > ppret.errors[2].index

\* The install commands of the call so far, finished or still running.
SinglesRun == SelectSeq(cmdlog, LAMBDA e : e.cmd.role = "single")
BatchesRun == SelectSeq(cmdlog, LAMBDA e : e.cmd.role = "batch")
BatchesStarted ==
    Len(BatchesRun) + Cardinality({c \in running : c.role = "batch"})

\* C5: with progress and apt, dnf or yum, the first install command is the
\* one command for all packages; per-package commands are run only after
\* that command failed, in list order, and none is run when it succeeded.
C5_BatchThenFallback ==
    (showProgress /\ pmName \in {"apt", "dnf", "yum"}) =>
        /\ \A c \in running :
             Len(cmdlog) = 0 => c = BatchCmd(toInstall)
        /\ Len(cmdlog) > 0 => cmdlog[1].cmd = BatchCmd(toInstall)
        /\ \A c \in running :
             c.role = "single" => (Len(cmdlog) > 0 /\ ~cmdlog[1].ok)
        /\ (Len(cmdlog) > 0 /\ cmdlog[1].ok) =>
             (Len(cmdlog) = 1 /\ running = {})
        /\ \A j \in 2 .. Len(cmdlog) :
             cmdlog[j].cmd = SingleCmd(toInstall[j - 1])
        /\ (ipc = "done" /\ ipret.nil /\ Len(cmdlog) > 0 /\ ~cmdlog[1].ok) =>
             Len(cmdlog) = 1 + Len(toInstall)

\* The batch command failed and two packages were then installed one by one.
C5_Witness ==
    /\ showProgress
    /\ pmName = "apt"
    /\ ipc = "done"
    /\ Len(cmdlog) = 3
    /\ ~cmdlog[1].ok
    /\ cmdlog[2].ok
    /\ cmdlog[3].ok

\* C6 as stated: the batch command is run at most once, no package's own
\* install command is run twice, and a failed per-package command is the
\* last command of the call, which returns an error naming the package.
C6_EachPackageAtMostOnce ==
    /\ BatchesStarted <= 1
    /\ \A p \in Pkgs :
         Cardinality({j \in 1 .. Len(cmdlog) : cmdlog[j].cmd = SingleCmd(p)}) <= 1
    /\ \A j \in 1 .. Len(SinglesRun) :
         ~SinglesRun[j].ok =>
            /\ j = Len(SinglesRun)
            /\ running = {}
            /\ ipc = "done"
            /\ ipret = InstallError(SinglesRun[j].cmd.args[1])

\* C6 (amended): the batch command is run at most once and the per-package
\* command is run at most once for each entry of the list to install, in
\* list order; a failed per-package command is the last command of the call,
\* which returns an error naming the package.
C6_NoRetry ==
    /\ BatchesStarted <= 1
    /\ Len(SinglesRun) + Cardinality({c \in running : c.role = "single"})
         <= Len(toInstall)
    /\ \A j \in 1 .. Len(SinglesRun) :
         SinglesRun[j].cmd = SingleCmd(toInstall[j])
    /\ \A j \in 1 .. Len(SinglesRun) :
         ~SinglesRun[j].ok =>
            /\ j = Len(SinglesRun)
            /\ running = {}
            /\ ipc = "done"
            /\ ipret = InstallError(toInstall[j])

\* After a failed batch the first package installed and the second failed:
\* the call ended there with a third package never attempted.
C6_Witness ==
    /\ ipc = "done"
    /\ Len(toInstall) = 3
    /\ Len(cmdlog) = 3
    /\ cmdlog[1].cmd.role = "batch"
    /\ cmdlog[2].ok
    /\ ~cmdlog[3].ok
    /\ ipret = InstallError(toInstall[2])

\* C7: installation with progress is parallel: while the install command of
\* one package is in progress and a different package is still to be
\* installed, the install command of that package can be started.
C7_ParallelInstall ==
    ( /\ showProgress
      /\ \E c \in running : c.role = "single"
      /\ pidx < Len(toInstall)
      /\ toInstall[pidx + 1] # toInstall[pidx] )
    => ENABLED (WPFallbackStart \/ WPEachStart \/ NPEachStart)

\* C8: Detect returns an error exactly when none of apt, dnf, yum, pacman,
\* apk, zypper is found on the host; otherwise it returns the command table
\* of a supported package manager whose command is on the host.
C8_DetectFindsInstalled ==
    dpc = "done" =>
        /\ dret.err <=> (hostCmds \cap SupportedPM = {})
        /\ ~dret.err =>
            /\ dret.pm.Name \in SupportedPM
            /\ dret.pm.Name \in hostCmds
            /\ dret.pm = packageManagers[dret.pm.Name]

\* Detect passed package managers the host lacks and returned one of the
\* two it has.
C8_Witness ==
    /\ dpc = "done"
    /\ ~dret.err
    /\ Cardinality(hostCmds \cap SupportedPM) = 2
    /\ Cardinality(dvisited) >= 2

\* C9: when an operation has ended and one of the state-changing external
\* commands it ran has failed, the operation has returned a non-nil error.
C9_FailedCommandReturnsError ==
    ( /\ opc = "done"
      /\ \E j \in 1 .. Len(oplog) : oplog[j].kind = "exec" /\ ~oplog[j].ok )
    => ~opret.nil

\* C10: SetupSSH runs backup, read, rewrite and restart in that order, each
\* at most once; sshd_config is rewritten only after a successful backup,
\* the ssh service is restarted only after a successful rewrite, and a
\* failed step is the last one and makes SetupSSH return an error.
C10_SSHOrder ==
    LET order == <<"cp sshd_config sshd_config.backup", "read sshd_config",
                   "write sshd_config", "systemctl restart ssh">>
    IN  op = "SetupSSH" =>
        /\ Len(oplog) <= Len(order)
        /\ \A j \in 1 .. Len(oplog) : oplog[j].name = order[j]
        /\ \A j \in 1 .. Len(oplog) :
             oplog[j].name = "write sshd_config" =>
                \E i \in 1 .. (j - 1) :
                    /\ oplog[i].name = "cp sshd_config sshd_config.backup"
                    /\ oplog[i].ok
        /\ \A j \in 1 .. Len(oplog) :
             oplog[j].name = "systemctl restart ssh" =>
                \E i \in 1 .. (j - 1) :
                    /\ oplog[i].name = "write sshd_config"
                    /\ oplog[i].ok
        /\ \A j \in 1 .. Len(oplog) :
             ~oplog[j].ok =>
                (j = Len(oplog) /\ opc = "done" /\ ~opret.nil)

\* The backup succeeded, the rewrite failed, and SetupSSH ended there
\* without restarting the service.
C10_Witness ==
    /\ op = "SetupSSH"
    /\ opc = "done"
    /\ Len(oplog) = 3
    /\ oplog[1].ok
    /\ oplog[3].name = "write sshd_config"
    /\ ~oplog[3].ok
    /\ opret = OpError("configure SSH")

\* the supported formats a path ends with, letter case ignored
C11_SuffixesOf(path) ==
    LET folded == [k \in DOMAIN path |-> ToLowerName(path[k])]
    IN  { i \in DOMAIN SupportedFormats : HasSuffix(folded, SupportedFormats[i]) }

\* the extract method that belongs to a supported format
C11_ExtractorOf(format) ==
    CASE format \in {<<"tar", "gz">>, <<"tgz">>}   -> "extractTarGz"
      [] format \in {<<"tar", "bz2">>, <<"tbz2">>} -> "extractTarBz2"
      [] format \in {<<"tar", "xz">>, <<"txz">>}   -> "extractTarXz"
      [] format = <<"tar", "zst">> -> "extractTarZstd"
      [] format = <<"tar", "lz4">> -> "extractTarLz4"
      [] format = <<"tar">>  -> "extractTar"
      [] format = <<"gz">>   -> "extractGz"
      [] format = <<"bz2">>  -> "extractBz2"
      [] format = <<"xz">>   -> "extractXz"
      [] format = <<"zip">>  -> "extractZip"
      [] format = <<"rar">>  -> "extractRar"
      [] format = <<"7z">>   -> "extract7z"
      [] format = <<"lz4">>  -> "extractLz4"
      [] format = <<"zst">>  -> "extractZstd"
      [] format = <<"lzop">> -> "extractLzop"

\* C11: once extractArchive has passed its switch, the extract method it
\* selected is the one of the longest supported format the path ends with,
\* letter case ignored (so a path ending in .tar.gz, .tar.bz2, .tar.xz,
\* .tar.zst or .tar.lz4 never reaches extractGz, extractBz2, extractXz,
\* extractZstd or extractLz4), and a path that ends with no supported format
\* has type "unknown", selects no extract method and is returned the
\* unsupported-format error.
C11_LongestSuffixDispatch ==
    (apc \in {"ea_run", "done"} /\ archiveType # "") =>
        LET found == C11_SuffixesOf(archivePath)
        IN  IF found = {}
            THEN /\ archiveType = "unknown"
                 /\ extractor = ""
                 /\ apc = "done"
                 /\ aret = OpError("unsupported archive format")
            ELSE LET longest == CHOOSE i \in found : \A j \in found :
                                  Len(SupportedFormats[j]) <= Len(SupportedFormats[i])
                 IN  extractor = C11_ExtractorOf(SupportedFormats[longest])

\* C11 witness: extractArchive has sent "x.TAR.GZ" to extractTarGz
C11_Witness ==
    /\ archivePath = <<"x", "TAR", "GZ">>
    /\ apc = "done"
    /\ extractor = "extractTarGz"
    /\ aret = OpNil
\* the directive a line starts with: its first word, blanks before it skipped
RECURSIVE C12_Directive(_)
C12_Directive(line) ==
    IF line = << >> THEN ""
    ELSE IF line[1] \in {" ", "\t"} THEN C12_Directive(Tail(line))
    ELSE line[1]

\* C12: after a configureSSH call that returned nil the file has the lines
\* it had before, in the same order, followed by the eight lines of the
\* recommended block: a blank line, a comment line and a line of a directive
\* other than Port, PermitRootLogin and PasswordAuthentication is unchanged;
\* a line that changed starts with one of those three directives and its
\* replacement is a line of the same directive at the same position.
C12_LineReplacementOnly ==
    (sshRuns > 0 /\ sshret.nil) =>
        LET old == Split(sshdBefore)
            new == Split(sshdConfig)
            Replaced == {"Port", "PermitRootLogin", "PasswordAuthentication"}
        IN  /\ Len(new) = Len(old) + 8
            /\ \A i \in DOMAIN old :
                 \/ new[i] = old[i]
                 \/ /\ C12_Directive(old[i]) \in Replaced
                    /\ C12_Directive(new[i]) = C12_Directive(old[i])
            /\ SubSeq(new, Len(old) + 1, Len(old) + 8) =
                 << << >>,
                    <<"#", " ", "Additional", " ", "security", " ", "settings">>,
                    <<"Protocol", " ", "2">>,
                    <<"ClientAliveInterval", " ", "300">>,
                    <<"ClientAliveCountMax", " ", "2">>,
                    <<"MaxAuthTries", " ", "3">>,
                    <<"MaxSessions", " ", "10">>,
                    <<"X11Forwarding", " ", "no">> >>

\* C12 witness: a first call has rewritten a file of a comment, a Port line
\* and an indented UsePAM line: only the Port line differs
C12_Witness ==
    /\ sshRuns = 1
    /\ sshret.nil
    /\ sshArgs.port = 2222
    /\ Split(sshdBefore) = << <<"#", "Port", " ", "22">>, <<"Port", " ", "22">>,
                              <<" ", "UsePAM", " ", "yes">> >>
    /\ SubSeq(Split(sshdConfig), 1, 3) =
         << <<"#", "Port", " ", "22">>, <<"Port", " ", "2222">>,
            <<" ", "UsePAM", " ", "yes">> >>

\* the step of the inactive branch of SetupFirewall a logged command belongs
\* to: 1 reset, 2 and 3 the default policies, 4 rule application, 5 logging,
\* 6 enable, 7 the closing status display, 0 what runs before the branch
FWPhase(entry) ==
    CASE entry.name = "ufw --force reset" -> 1
      [] entry.name = "ufw default deny incoming" -> 2
      [] entry.name = "ufw default allow outgoing" -> 3
      [] entry.name \in {"ufw allow", "ufw deny", "ufw allow from"} -> 4
      [] entry.name = "ufw logging on" -> 5
      [] entry.name = "yes | ufw enable" -> 6
      [] entry.name = "ufw status verbose" -> 7
      [] OTHER -> 0

\* `ufw status` reported an inactive firewall
FWInactive ==
    /\ op = "SetupFirewall"
    /\ Contains(status, <<"Status:", "inactive">>)
    /\ ~Contains(status, <<"Status:", "active">>)

\* C13: when UFW is inactive the commands of SetupFirewall run in the order
\* reset, deny incoming, allow outgoing, rules, logging, enable, each of the
\* single commands at most once; when enable runs, reset, both policies and
\* logging have run and every earlier command succeeded; and a failed command
\* is the last one run: the call has ended with an error and holds no
\* successful enable.
C13_InactiveOrder ==
    FWInactive =>
        /\ \A i, j \in DOMAIN oplog :
             i < j => /\ FWPhase(oplog[i]) <= FWPhase(oplog[j])
                      /\ FWPhase(oplog[i]) = FWPhase(oplog[j])
                           => FWPhase(oplog[i]) \in {0, 4}
        /\ \A k \in DOMAIN oplog :
             FWPhase(oplog[k]) = 6 =>
                 /\ \A i \in 1..(k - 1) : oplog[i].ok
                 /\ {1, 2, 3, 5} \subseteq { FWPhase(oplog[i]) : i \in 1..(k - 1) }
        /\ \A i \in DOMAIN oplog :
             (FWPhase(oplog[i]) \in 1..6 /\ ~oplog[i].ok) =>
                 /\ i = Len(oplog)
                 /\ opc = "done"
                 /\ ~opret.nil
        /\ (opc = "done" /\ ~opret.nil) =>
             \A i \in DOMAIN oplog : ~(FWPhase(oplog[i]) = 6 /\ oplog[i].ok)

\* C13 witness: every step of the inactive branch, a port rule and a custom
\* rule among them, has run and the call has returned nil
C13_Witness ==
    /\ FWInactive
    /\ opc = "done"
    /\ opret.nil
    /\ config.SSHPort = 22
    /\ config.Rules # << >>
    /\ \E k \in DOMAIN oplog : FWPhase(oplog[k]) = 6 /\ oplog[k].ok

\* C14: whenever the enable command has run, an allow rule for
\* config.SSHPort/tcp was added successfully after the reset and before the
\* enable.
C14_SSHAllowedBeforeEnable ==
    op = "SetupFirewall" =>
        \A k \in DOMAIN oplog :
            FWPhase(oplog[k]) = 6 =>
                \E r, i \in 1..(k - 1) :
                    /\ r < i
                    /\ FWPhase(oplog[r]) = 1
                    /\ oplog[i] = Ran("exec", "ufw allow", config.SSHPort, "tcp", TRUE)

\* C15: with config.Enabled false SetupFirewall runs no command and returns
\* nil; when the status output contains "Status: active" it runs no reset,
\* policy, rule, logging or enable command, the only command after the
\* status query lists the rules, and it returns nil.
C15_NothingToDo ==
    op = "SetupFirewall" =>
        /\ ~config.Enabled =>
             /\ oplog = << >>
             /\ opc = "done" => opret.nil
        /\ Contains(status, <<"Status:", "active">>) =>
             /\ \A i \in DOMAIN oplog : ~(FWPhase(oplog[i]) \in 1..6)
             /\ \A i, j \in DOMAIN oplog :
                  (i < j /\ oplog[i].name = "ufw status")
                      => oplog[j].name = "ufw status numbered"
             /\ opc = "done" =>
                  /\ opret.nil
                  /\ oplog[Len(oplog)].name = "ufw status numbered"

\* C15 witness: the status was active and the call has returned after
\* listing the rules
C15_Witness ==
    /\ op = "SetupFirewall"
    /\ config.SSHPort = 22
    /\ config.OpenPorts # << >>
    /\ Contains(status, <<"Status:", "active">>)
    /\ opc = "done"
    /\ opret.nil
    /\ oplog[Len(oplog)].name = "ufw status numbered"

\* C16: when SetupFirewall has returned nil for a config with Enabled true,
\* the status output contained "Status: active" or the enable command was
\* run and succeeded in this call.
C16_NilMeansActive ==
    (op = "SetupFirewall" /\ config.Enabled /\ opc = "done" /\ opret.nil) =>
        \/ Contains(status, <<"Status:", "active">>)
        \/ \E k \in DOMAIN oplog : FWPhase(oplog[k]) = 6 /\ oplog[k].ok

\* the commands of rule application that have been run, without outcome
C17_Issued ==
    LET RECURSIVE rules(_)
        rules(log) ==
            IF log = << >> THEN << >>
            ELSE (IF FWPhase(log[1]) = 4
                  THEN <<[name |-> log[1].name, port |-> log[1].port,
                          arg |-> log[1].arg]>>
                  ELSE << >>) \o rules(Tail(log))
    IN  rules(oplog)

\* the commands the claim lists for a config: the SSH rule, one allow rule
\* per open port that is in 1..65535, is not the SSH port and was not listed
\* before, the custom rules up to the first one whose action is neither
\* allow nor deny, the allowed IPs unless such a custom rule stopped the
\* application
C17_Expected(cfg) ==
    LET allow(port) == [name |-> "ufw allow", port |-> port, arg |-> "tcp"]
        ssh == IF cfg.SSHPort > 0 THEN <<allow(cfg.SSHPort)>> ELSE << >>
        RECURSIVE ports(_, _)
        ports(todo, emitted) ==
            IF todo = << >> THEN << >>
            ELSE IF \/ todo[1] <= 0
                    \/ todo[1] > 65535
                    \/ todo[1] = cfg.SSHPort
                    \/ todo[1] \in emitted
                 THEN ports(Tail(todo), emitted)
                 ELSE <<allow(todo[1])>> \o ports(Tail(todo), emitted \cup {todo[1]})
        supported(rule) == rule.Action \in {"allow", "deny"}
        RECURSIVE custom(_)
        custom(todo) ==
            IF todo = << >> \/ ~supported(todo[1]) THEN << >>
            ELSE <<[name |-> "ufw " \o todo[1].Action, port |-> todo[1].Port,
                    arg |-> todo[1].Protocol]>> \o custom(Tail(todo))
        ips == IF \A i \in DOMAIN cfg.Rules : supported(cfg.Rules[i])
               THEN [i \in DOMAIN cfg.AllowIPs |->
                       [name |-> "ufw allow from", port |-> 0,
                        arg |-> cfg.AllowIPs[i]]]
               ELSE << >>
    IN  ssh \o ports(cfg.OpenPorts, {}) \o custom(cfg.Rules) \o ips

\* C17: the rule commands run so far are the first ones of the list the
\* claim describes, in its order; once rule application has returned nil the
\* whole list has run; no two of the allow rules made from SSHPort and
\* OpenPorts name the same port; and a rule command that failed is the last
\* command of the call.
C17_RuleOrder ==
    op = "SetupFirewall" =>
        LET issued == C17_Issued
            expected == C17_Expected(config)
            fromPorts == C17_Expected([config EXCEPT !.Rules = << >>,
                                                     !.AllowIPs = << >>])
        IN  /\ Len(issued) <= Len(expected)
            /\ issued = SubSeq(expected, 1, Len(issued))
            /\ opc \in {"fw_logging", "fw_enable", "fw_show", "fw_return"}
                 /\ FWInactive => issued = expected
            /\ \A i, j \in DOMAIN issued :
                 (i < j /\ j <= Len(fromPorts))
                      => issued[i].port # issued[j].port
            /\ \A i \in DOMAIN oplog :
                 (FWPhase(oplog[i]) = 4 /\ ~oplog[i].ok) =>
                     i = Len(oplog) /\ opc = "done" /\ ~opret.nil

\* C17 witness: with SSH port 22 and open ports 22 and 80 the rules for 22
\* and 80 have been added, once each, and a custom rule after them
C17_Witness ==
    /\ op = "SetupFirewall"
    /\ config.SSHPort = 22
    /\ config.OpenPorts = <<22, 80>>
    /\ config.Rules # << >>
    /\ Len(C17_Issued) >= 3
    /\ C17_Issued[1].port = 22
    /\ C17_Issued[2].port = 80
    /\ FWPhase(oplog[Len(oplog)]) = 5

\* C18: for a config ValidateConfig accepts, every port that rule
\* application has passed to a ufw allow or ufw deny command lies in
\* 1..65535, and rule application has not ended on a custom rule with an
\* unsupported action.
C18_ValidatedPortsInRange ==
    (op = "SetupFirewall" /\ ValidateConfig(config)) =>
        /\ \A i \in DOMAIN oplog :
             oplog[i].name \in {"ufw allow", "ufw deny"}
                 => oplog[i].port \in 1..65535
        /\ \A i \in DOMAIN config.Rules :
             config.Rules[i].Action \in {"allow", "deny"}

\* the requested packages the host reports as not installed, in order
C19_Missing == SelectSeq(packages, LAMBDA p : p \notin hostInstalled)

\* the part of C19 that does not depend on the package manager's name: the
\* installers work on the missing packages, in order: the batch command
\* names all of them and a per-package command names one of them; with an
\* empty request, or when every package is reported installed, no install
\* command is run and nil is returned
C19_HandsMissing ==
    /\ ipc \notin {"entry", "filter", "done"} =>
         (toInstall = C19_Missing /\ toInstall # << >>)
    /\ \A c \in running \cup { cmdlog[j].cmd : j \in DOMAIN cmdlog } :
         /\ c.role = "batch" => c.args = C19_Missing
         /\ c.role = "single" =>
              \E j \in DOMAIN C19_Missing : c.args = <<C19_Missing[j]>>
    /\ (packages = << >> \/ (pmName \in SupportedPM /\ C19_Missing = << >>)) =>
         /\ cmdlog = << >>
         /\ running = {}
         /\ ipc = "done" => ipret.nil

\* C19 as stated: the above, and with an unsupported package manager name
\* no install command is run and an error is returned.
C19_FilterThenInstall ==
    /\ C19_HandsMissing
    /\ pmName \notin SupportedPM =>
         /\ cmdlog = << >>
         /\ running = {}
         /\ ipc = "done" => ~ipret.nil

\* C19 (amended): the above, and with an unsupported package manager name no
\* install command is run and, unless the request is empty, the error of
\* the first package's check is returned.
C19_FilterThenInstallNonEmpty ==
    /\ C19_HandsMissing
    /\ pmName \notin SupportedPM =>
         /\ cmdlog = << >>
         /\ running = {}
         /\ (ipc = "done" /\ packages # << >>) => ipret = CheckError(packages[1])
         /\ (ipc = "done" /\ packages = << >>) => ipret.nil

\* C19 witness: of three requested packages the one that is installed was
\* left out and the batch command for the other two has finished
C19_Witness ==
    /\ Len(packages) = 3
    /\ Len(C19_Missing) = 2
    /\ Len(cmdlog) = 1
    /\ cmdlog[1].cmd = BatchCmd(C19_Missing)
    /\ cmdlog[1].ok
    /\ ipc = "done"
    /\ ipret.nil

\* C20: when InstallPackages has returned for both values of showProgress,
\* on the same host and with the external commands ending the same way, the
\* two calls have run the same install commands and both returned nil or both
\* returned an error.
C20_ProgressOnlyDisplay ==
    (prevCall.made /\ ipc = "done") =>
        /\ [j \in DOMAIN cmdlog |-> cmdlog[j].cmd]
             = [j \in DOMAIN prevCall.cmdlog |-> prevCall.cmdlog[j].cmd]
        /\ ipret.nil = prevCall.ipret.nil

\* C21: after a configureSSH call that returned nil, sshd_config holds a
\* line that reads, blanks around it aside, "Port <port>", one that reads
\* "PermitRootLogin yes" when allowRoot is true and "PermitRootLogin no"
\* otherwise, and one that reads "PasswordAuthentication yes" when
\* passwordAuth is true and "PasswordAuthentication no" otherwise.
C21_DirectivesWritten ==
    (sshRuns > 0 /\ sshret.nil) =>
        LET written == Split(sshdConfig)
            active == { TrimSpace(written[i]) : i \in DOMAIN written }
            decimal == CASE sshArgs.port = 22 -> "22"
                         [] sshArgs.port = 2222 -> "2222"
            word(b) == IF b THEN "yes" ELSE "no"
        IN  /\ <<"Port", " ", decimal>> \in active
            /\ <<"PermitRootLogin", " ", word(sshArgs.allowRoot)>> \in active
            /\ <<"PasswordAuthentication", " ", word(sshArgs.passwordAuth)>> \in active

\* C22: a second configureSSH call with the same arguments, made on the
\* content a first call wrote (it ends with the recommended block, which no
\* initial file does), leaves that content as it is.
C22_Idempotent ==
    LET before == Split(sshdBefore)
        once == /\ Len(before) >= Len(recommendedSettings)
                /\ SubSeq(before, Len(before) - Len(recommendedSettings) + 1,
                          Len(before)) = recommendedSettings
    IN  (sshRuns = 2 /\ sshret.nil /\ once) => sshdConfig = sshdBefore

\* C23: once Extract is past its isArchive test, it has turned the path down
\* there (returned the unsupported-format error without reaching
\* extractArchive) exactly when detectArchiveType gives "unknown" for it.
C23_AcceptsWhatIsRecognised ==
    (aop = "Extract" /\ apc # "ex_entry") =>
        LET refused == /\ apc = "done"
                       /\ archiveType = ""
                       /\ aret = OpError("unsupported archive format")
        IN  refused <=> detectArchiveType(archivePath) = "unknown"

\* C24: calculateSwapSize returns twice the RAM size when RAM < 2 GiB, the
\* RAM size when 2 GiB <= RAM <= 8 GiB and half the RAM size when
\* RAM > 8 GiB, in whole MiB with the suffix M, and "2G" whenever the
\* memory size cannot be read or parsed; there is no error result, the call
\* always goes on to the creation of the file.
\* The expected sizes, worked out by hand from the rule:
\*   1048575 B (< 2 GiB): 2097150 B, 1 MiB;  1 GiB: 2 GiB, 2048 MiB;
\*   2147483647 B (2 GiB - 1): 4294967294 B, 4095 MiB;
\*   2 GiB, 4 GiB, 8 GiB - 1, 8 GiB: themselves, 2048, 4096, 8191, 8192 MiB;
\*   8 GiB + 1: 4 GiB, 4096 MiB;  8 GiB + 1 MiB: 4096.5 MiB, 4096 MiB;
\*   16 GiB: 8 GiB, 8192 MiB.
C24_Expected ==
    [t \in RAMTexts |->
        CASE t = "0" -> "0M"
          [] t = "1048575" -> "1M"
          [] t = "1073741824" -> "2048M"
          [] t = "2147483647" -> "4095M"
          [] t = "2147483648" -> "2048M"
          [] t = "4294967296" -> "4096M"
          [] t = "8589934591" -> "8191M"
          [] t = "8589934592" -> "8192M"
          [] t = "8589934593" -> "4096M"
          [] t = "8590983168" -> "4096M"
          [] t = "17179869184" -> "8192M"]

C24_Calculated ==
    \E i \in DOMAIN oplog : oplog[i].name = "free -b"

C24_SwapSizeByRAM ==
    (op = "SetupSwap" /\ C24_Calculated) =>
        /\ \A t \in RAMTexts :
              memInfo = [err |-> FALSE, out |-> FreeOutput(t)]
                  => swapSize = C24_Expected[t]
        /\ memInfo.out = "total used free\nMem: 4g 0\n" => swapSize = "4096M"
        /\ (\/ memInfo.err
            \/ memInfo.out \in {"", "total used free",
                                "total used free\nMem:\n",
                                "total used free\nMem: unknown 0\n"})
              => swapSize = "2G"
        /\ ~(opc = "done" /\ oplog[Len(oplog)].name = "free -b")

C24_Witness ==
    /\ op = "SetupSwap"
    /\ C24_Calculated
    /\ memInfo = [err |-> FALSE, out |-> FreeOutput("8589934592")]
    /\ swapSize = "8192M"
    /\ opc = "sw_remove"

\* C25: a call of MergeConfigs with both arguments non-nil gives a
\* configuration whose Timezone, Hostname, SwapSize, SSHPort, OpenPorts and
\* AllowIPs are override's when override's value is non-empty (non-zero)
\* and base's otherwise, and whose lists Basic, Archive, Network,
\* Monitoring, Development, Security and System each hold exactly the
\* packages of the base and the override list, none twice; with one
\* argument nil the other argument is what is returned.
C25_Pick(empty, fromOverride, fromBase, got) ==
    got = IF fromOverride # empty THEN fromOverride ELSE fromBase

C25_Union(fromBase, fromOverride, got) ==
    /\ { got[i] : i \in DOMAIN got }
         = { fromBase[i] : i \in DOMAIN fromBase }
             \cup { fromOverride[i] : i \in DOMAIN fromOverride }
    /\ \A i, j \in DOMAIN got : got[i] = got[j] => i = j

C25_MergeFieldByField ==
    merged.from # "none" =>
        LET b == base.cfg
            o == override.cfg
            m == merged.cfg
        IN  /\ (~base.nil /\ ~override.nil) =>
                /\ ~merged.nil
                /\ C25_Pick("", o.System.Timezone, b.System.Timezone,
                            m.System.Timezone)
                /\ C25_Pick("", o.System.Hostname, b.System.Hostname,
                            m.System.Hostname)
                /\ C25_Pick("", o.System.SwapSize, b.System.SwapSize,
                            m.System.SwapSize)
                /\ C25_Pick(0, o.Security.SSHPort, b.Security.SSHPort,
                            m.Security.SSHPort)
                /\ C25_Pick(<< >>, o.Security.OpenPorts, b.Security.OpenPorts,
                            m.Security.OpenPorts)
                /\ C25_Pick(<< >>, o.Security.AllowIPs, b.Security.AllowIPs,
                            m.Security.AllowIPs)
                /\ C25_Union(b.Packages.Basic, o.Packages.Basic,
                             m.Packages.Basic)
                /\ C25_Union(b.Packages.Archive, o.Packages.Archive,
                             m.Packages.Archive)
                /\ C25_Union(b.Packages.Network, o.Packages.Network,
                             m.Packages.Network)
                /\ C25_Union(b.Packages.Monitoring, o.Packages.Monitoring,
                             m.Packages.Monitoring)
                /\ C25_Union(b.Packages.Development, o.Packages.Development,
                             m.Packages.Development)
                /\ C25_Union(b.Packages.Security, o.Packages.Security,
                             m.Packages.Security)
                /\ C25_Union(b.Packages.System, o.Packages.System,
                             m.Packages.System)
            /\ base.nil =>
                merged = [from |-> "override", nil |-> override.nil,
                          cfg |-> o]
            /\ (~base.nil /\ override.nil) =>
                merged = [from |-> "base", nil |-> FALSE, cfg |-> b]

C25_Witness ==
    /\ merged.from = "new"
    /\ ~base.nil /\ ~override.nil
    /\ override.cfg.System.Timezone = ""
    /\ merged.cfg.System.Timezone = "Europe/Moscow"
    /\ merged.cfg.Security.SSHPort = 2222
    /\ merged.cfg.Security.OpenPorts = <<80>>
    /\ merged.cfg.Packages.Basic = <<"vim", "curl", "git">>
    /\ merged.cfg.Packages.Archive = <<"zip">>

\* C26: when `swapon --show` succeeds with non-empty output, SetupSwap
\* returns an error and has done nothing else: nothing is removed, created
\* or formatted and neither /etc/fstab nor the sysctl file is written.
\* Otherwise it creates the file, sets its mode, runs mkswap and swapon,
\* appends to /etc/fstab and configures the swappiness, in that order, and
\* the first of these steps that fails is the last thing it does.
\* The steps in the order the claim gives them; creating the file is the
\* removal of the old one and fallocate, or dd where fallocate fails.
C26_StepOf(name) ==
    CASE name \in {"swapon --show", "free -b"} -> 0
      [] name \in {"remove /swapfile", "fallocate", "dd"} -> 1
      [] name = "chmod 600" -> 2
      [] name = "mkswap" -> 3
      [] name = "swapon" -> 4
      [] name \in {"open /etc/fstab", "append /etc/fstab"} -> 5
      [] name \in {"write 99-swappiness.conf", "sysctl -p"} -> 6

\* the commands and file operations that change the system, in the order
\* a call takes them that meets no failure but, perhaps, that of fallocate
C26_Order(withDd) ==
    <<"remove /swapfile", "fallocate">>
        \o (IF withDd THEN <<"dd">> ELSE << >>)
        \o <<"chmod 600", "mkswap", "swapon", "open /etc/fstab",
             "append /etc/fstab", "write 99-swappiness.conf", "sysctl -p">>

\* a step has failed at entry i: creating the file fails when dd fails (the
\* failure of removing the old file or of fallocate is not one), any other
\* step fails when its command or file operation fails
C26_FailedAt(i) ==
    /\ ~oplog[i].ok
    /\ C26_StepOf(oplog[i].name) >= 1
    /\ oplog[i].name \notin {"remove /swapfile", "fallocate"}

C26_ActiveStopsElseInOrder ==
    (op = "SetupSwap" /\ opc # "sw_show") =>
        LET active == ~swapInfo.err /\ swapInfo.out # ""
            changes == SelectSeq(oplog, LAMBDA r : C26_StepOf(r.name) >= 1)
            withDd == \E i \in DOMAIN changes :
                         changes[i].name = "fallocate" /\ ~changes[i].ok
            order == C26_Order(withDd)
            failed == { i \in DOMAIN oplog : C26_FailedAt(i) }
        IN  IF active
            THEN /\ opc = "done"
                 /\ ~opret.nil
                 /\ changes = << >>
            ELSE /\ Len(changes) <= Len(order)
                 /\ \A i \in DOMAIN changes : changes[i].name = order[i]
                 /\ \A i \in failed :
                       i = Len(oplog) /\ opc = "done" /\ ~opret.nil
                 /\ opc = "done" =>
                       \/ opret.nil /\ failed = {}
                                    /\ Len(changes) = Len(order)
                       \/ ~opret.nil /\ failed # {}

\* no swap in use, fallocate fails and dd creates the file, and the call ends
\* with the error of swapon, /etc/fstab and the sysctl file not touched
C26_Witness ==
    /\ op = "SetupSwap"
    /\ ~swapInfo.err /\ swapInfo.out = ""
    /\ opc = "done"
    /\ ~opret.nil
    /\ \E i \in DOMAIN oplog : oplog[i].name = "dd" /\ oplog[i].ok
    /\ oplog[Len(oplog)] = Ran("exec", "swapon", 0, "", FALSE)
====
